---- MODULE Spec2Model ----
(***************************************************************************)
(* Model of the SCIM reconciler of ksm-google-scim: sync.Sync with its     *)
(* three phases (syncGroups, syncUsers, syncMembership) of scim/sync.go,   *)
(* run against a SCIM target, and googleEndpoint.Populate, the loader of   *)
(* the Google Workspace snapshot.                                          *)
(*                                                                         *)
(* Strings that the code case-folds (group names, e-mails) are sequences   *)
(* of one-character strings, so that folding is computed; every other      *)
(* string (ids, person names) is a plain string.  Go maps are functions    *)
(* over their key sets; a range over a map picks its next key freely.      *)
(***************************************************************************)
EXTENDS Integers, Sequences, FiniteSets, TLC

\* ------------------------------------------------------------ bounds
\* How many times Sync is called on the same sync object.
MaxRuns == 2
\* How many SCIM requests may fail in one call of Sync.
MaxFailures == 2
\* How many group ids the Groups list of a source user may hold.
MaxGroupsLen == 2

\* How many directory calls of one Populate may fail.
MaxCallFailures == 1

\* ------------------------------------------------------------ strings
Upper == <<"A", "B", "C", "D", "E", "F", "G", "H", "I", "J", "K", "L", "M",
           "N", "O", "P", "Q", "R", "S", "T", "U", "V", "W", "X", "Y", "Z">>
Lower == <<"a", "b", "c", "d", "e", "f", "g", "h", "i", "j", "k", "l", "m",
           "n", "o", "p", "q", "r", "s", "t", "u", "v", "w", "x", "y", "z">>

\* cases.Fold() on one character: an upper-case letter becomes its lower-case
\* letter, every other character is kept.
FoldChar(c) ==
    IF \E i \in 1..Len(Upper) : Upper[i] = c
    THEN Lower[CHOOSE i \in 1..Len(Upper) : Upper[i] = c]
    ELSE c

\* fold.String(s)
Fold(s) == [i \in 1..Len(s) |-> FoldChar(s[i])]

\* ------------------------------------------------------------ helpers
Range(f) == {f[x] : x \in DOMAIN f}

\* The map m without key k (Go's delete(m, k)).
MapDelete(m, k) == [x \in (DOMAIN m) \ {k} |-> m[x]]

\* The map m with m[k] = v (Go's m[k] = v).
MapPut(m, k, v) == [x \in (DOMAIN m) \cup {k} |-> IF x = k THEN v ELSE m[x]]

EmptyMap == [x \in {} |-> x]

\* Every order in which a range over the set S may hand out its elements.
RECURSIVE Orders(_)
Orders(S) ==
    IF S = {} THEN {<<>>}
    ELSE UNION {{<<x>> \o o : o \in Orders(S \ {x})} : x \in S}

SeqToSet(q) == {q[i] : i \in 1..Len(q)}

\* A map built by a loop `for _, v := range recs { m[key(v)] = v.Id }` keeps,
\* for each key, the record the range visited last: any record with that key.
\* keyOf is a function from the ids of recs to their keys.
LastWriteMaps(keyOf) ==
    {m \in [Range(keyOf) -> DOMAIN keyOf] : \A k \in Range(keyOf) : keyOf[m[k]] = k}

\* ------------------------------------------------------------ universe
\* Group names and e-mails as character sequences; Dv and dv (J@ and j@)
\* differ in letter case only.
NameDv == <<"D", "v">>
Namedv == <<"d", "v">>
NameOp == <<"O", "p">>
Names == {NameDv, Namedv, NameOp}

MailJ == <<"J", "@">>
Mailj == <<"j", "@">>
Mailk == <<"k", "@">>
Mailm == <<"m", "@">>

AnnLee == [FullName |-> "Ann Lee", FirstName |-> "Ann", LastName |-> "Lee"]
AnnRay == [FullName |-> "Ann Ray", FirstName |-> "Ann", LastName |-> "Ray"]
BobLee == [FullName |-> "Bob Lee", FirstName |-> "Bob", LastName |-> "Lee"]

SourceGroupIds == {"g1", "g2"}
SourceUserIds == {"u1", "u2"}
TargetGroupIds == {"k1", "k2"}
TargetUserIds == {"t1", "t2"}
\* A group id that a target user is a member of and that has no group record
\* in the SCIM node (sync.go:375, "Team is outside of SCIM node").
OrphanGroupId == "k9"
\* The ids the target assigns to created records, in order.
NewIds == <<"n1", "n2", "n3", "n4", "n5", "n6", "n7", "n8", "n9", "n10",
            "n11", "n12", "n13", "n14", "n15", "n16">>

\* scim_data.go: type Group
Group(id, name) == [Id |-> id, Name |-> name]

\* scim_data.go: type User
User(id, email, pn, active, groups) ==
    [Id |-> id, Email |-> email, FullName |-> pn.FullName,
     FirstName |-> pn.FirstName, LastName |-> pn.LastName,
     Active |-> active, Groups |-> groups]

\* The target's group record, as sync.go reads it (Id, ExternalId, Name).
ScimGroup(id, ext, name) == [Id |-> id, ExternalId |-> ext, Name |-> name]

\* The target's user record, as sync.go reads it.
ScimUser(id, ext, email, pn, active, groups) ==
    [Id |-> id, ExternalId |-> ext, Email |-> email, FullName |-> pn.FullName,
     FirstName |-> pn.FirstName, LastName |-> pn.LastName,
     Active |-> active, Groups |-> groups]

\* All maps id -> record with the ids in ids and the record of id in recs[id].
RecordMaps(ids, recs) ==
    UNION {[d -> UNION {recs[i] : i \in d}] : d \in SUBSET ids}

\* Maps keyed by the records' own Id field.
KeyedMaps(ids, recs) ==
    {m \in RecordMaps(ids, recs) : \A i \in DOMAIN m : m[i].Id = i}

\* Sequences over S of length at most n.
RECURSIVE SeqsUpTo(_, _)
SeqsUpTo(S, n) ==
    IF n = 0 THEN {<<>>}
    ELSE LET shorter == SeqsUpTo(S, n - 1)
         IN  shorter \cup {Append(q, x) : q \in shorter, x \in S}

\* No two records of the map have the same case-folded e-mail: the source
\* (Google primary e-mails) and the target (SCIM userName) both keep e-mails
\* unique without regard to letter case.
UniqueEmails(m) ==
    \A i, j \in DOMAIN m : Fold(m[i].Email) = Fold(m[j].Email) => i = j

\* ------------------------------------------------------------ state
VARIABLES
    pc,             \* where the call of Sync stands
    calls,          \* how many times the caller calls Sync on this object
    run,            \* the number of the current call of Sync (0 before the first)
    result,         \* what each call returned: "stat", "error", or "none" so far
    configured,     \* the level the caller gave to SetDestructive
    destructive,    \* sync.destructive
    verbose,        \* sync.verbose
    updateUsers,    \* sync.updateUsers
    srcGroups,      \* the source snapshot handed out by Groups()
    srcUsers,       \* the source snapshot handed out by Users()
    loadErrors,     \* what the source's LoadErrors() returns
    srvGroups,      \* the groups the SCIM target holds
    srvUsers,       \* the users the SCIM target holds
    created,        \* how many records the target has created
    scimLoaded,     \* sync.scimGroups and sync.scimUsers are not nil
    scimGroups,     \* sync.scimGroups
    scimUsers,      \* sync.scimUsers
    keeperGroups,   \* syncGroups: the keys of keeperGroups (target groups left)
    externalGroups, \* syncGroups: the keys of externalGroups (source groups left)
    matchRound,     \* syncGroups: matchRound
    groupLookup,    \* syncGroups: groupLookup, key -> target group id
    keeperUsers,    \* syncUsers: the keys of keeperUsers
    externalUsers,  \* syncUsers: the keys of externalUsers
    userLookup,     \* syncUsers: userLookup, folded e-mail -> target user id
    keeperUserLookup, \* syncMembership: folded e-mail -> target user id
    keeperGroupMap, \* syncMembership: externalId -> target group id
    todo,           \* the keys the running range loop has not visited yet
    stat,           \* the SyncStat of the current call
    requests,       \* every request sent to the target, in order
    loadedGroups,   \* the target's groups as populateScim loaded them in this call
    loadedUsers,    \* the target's users as populateScim loaded them in this call
    groupMatches,   \* the <<source group, target group, round>> matched in this call
    userMatches,    \* the <<source user, target user>> matched in this call
    phases          \* the phases the current call has entered, in order

config == <<calls, configured, verbose, updateUsers>>
source == <<srcGroups, srcUsers>>
server == <<srvGroups, srvUsers, created>>
memory == <<scimLoaded, scimGroups, scimUsers>>
groupLocals == <<keeperGroups, externalGroups, matchRound, groupLookup>>
userLocals == <<keeperUsers, externalUsers, userLookup>>
memberLocals == <<keeperUserLookup, keeperGroupMap>>
observed == <<loadedGroups, loadedUsers, groupMatches, userMatches, phases>>

\* The Google endpoint (googleEndpoint) and the locals of its Populate.
VARIABLES
    gePc,           \* where the call of Populate stands
    geScimGroups,   \* ge.scimGroups: the configured entries, as given
    dirMembers,     \* the directory: group id -> the member ids it lists
    geMade,         \* ge.users and ge.groups are not nil
    geGroups,       \* ge.groups
    geUsers,        \* ge.users: user id -> which object the pointer names
    resolved,       \* the User objects made while resolving e-mail entries
    geLoadErrors,   \* ge.loadErrors
    err,            \* Populate's named result err is not nil
    geUserLookup,   \* Populate: userLookup, the User objects of all users
    membershipCache, \* Populate: membershipCache
    groupId,        \* Populate: the top-level group being expanded
    groupIds,       \* Populate: groupIds, the queue of the expansion
    queuedIds,      \* Populate: queuedIds
    pos,            \* Populate: pos
    geTodo,         \* the keys the running range loop has not visited yet
    directoryCalls, \* every call of the directory API, in order
    queued          \* every <<top-level group, queued id>> appended to a queue

expansion == <<groupId, groupIds, queuedIds, pos>>
endpoint == <<gePc, geScimGroups, dirMembers, geMade, geGroups, geUsers,
              resolved, geLoadErrors, err, geUserLookup, membershipCache,
              expansion, geTodo, directoryCalls, queued>>

syncState == <<pc, run, result, destructive, loadErrors, config, source,
               server, memory, groupLocals, userLocals, memberLocals, todo, stat,
               requests, observed>>

vars == <<syncState, endpoint>>

\* scim_data.go: type SyncStat, freshly allocated (sync.go:62).
NewSyncStat ==
    [SuccessUsers |-> <<>>, FailedUsers |-> <<>>,
     SuccessGroups |-> <<>>, FailedGroups |-> <<>>,
     SuccessMembership |-> <<>>, FailedMembership |-> <<>>]

\* One formatted line of SyncStat: the message and the values formatted into it.
Entry(msg, args) == [msg |-> msg, args |-> args]

\* One request to the target.  id is "" for a POST.
Request(phase, method, kind, id, body, ok) ==
    [run |-> run, phase |-> phase, method |-> method, kind |-> kind,
     id |-> id, body |-> body, ok |-> ok]

\* The outcomes a request may have: it succeeds, or it fails while fewer than
\* MaxFailures requests of this call have failed.
Outcomes ==
    {TRUE} \cup
    (IF Cardinality({i \in 1..Len(requests) :
                        requests[i].run = run /\ ~requests[i].ok}) < MaxFailures
     THEN {FALSE} ELSE {})

\* ------------------------------------------------------------ the target
\* The target applies a replace patch: the attributes named in value are set.
ServerPatchGroup(rec, value) ==
    [rec EXCEPT
        !.ExternalId = IF "externalId" \in DOMAIN value THEN value["externalId"] ELSE @,
        !.Name = IF "displayName" \in DOMAIN value THEN value["displayName"] ELSE @]

ServerPatchUser(rec, value) ==
    [rec EXCEPT
        !.ExternalId = IF "externalId" \in DOMAIN value THEN value["externalId"] ELSE @,
        !.FullName = IF "displayName" \in DOMAIN value THEN value["displayName"] ELSE @,
        !.LastName = IF "name.familyName" \in DOMAIN value THEN value["name.familyName"] ELSE @,
        !.FirstName = IF "name.givenName" \in DOMAIN value THEN value["name.givenName"] ELSE @,
        !.Active = IF "active" \in DOMAIN value THEN value["active"] ELSE @]

\* The target deletes a group: the record goes, and with it the memberships in it.
ServerDeleteGroup(users, id) ==
    [u \in DOMAIN users |-> [users[u] EXCEPT !.Groups = @ \ {id}]]

\* The target applies a membership patch: its add and remove operations in order.
RECURSIVE ServerPatchMembership(_, _)
ServerPatchMembership(groups, operations) ==
    IF operations = <<>> THEN groups
    ELSE LET op == Head(operations)
             next == IF op.op = "add" THEN groups \cup SeqToSet(op.value)
                     ELSE groups \ op.value
         IN  ServerPatchMembership(next, Tail(operations))

\* ------------------------------------------------------------ the source
\* strings.TrimSpace, on character sequences.
IsSpace(c) == c \in {" ", "\n", "\t"}

RECURSIVE TrimLeft(_)
TrimLeft(s) == IF s # <<>> /\ IsSpace(Head(s)) THEN TrimLeft(Tail(s)) ELSE s

RECURSIVE TrimRight(_)
TrimRight(s) ==
    IF s # <<>> /\ IsSpace(s[Len(s)]) THEN TrimRight(SubSeq(s, 1, Len(s) - 1)) ELSE s

TrimSpace(s) == TrimRight(TrimLeft(s))

\* strings.Split(s, sep) for a one-character separator: the pieces between
\* the separators, empty pieces included.
RECURSIVE Split(_, _)
Split(s, sep) ==
    IF \E i \in 1..Len(s) : s[i] = sep
    THEN LET i == CHOOSE k \in 1..Len(s) :
                      s[k] = sep /\ \A j \in 1..(k - 1) : s[j] # sep
         IN  <<SubSeq(s, 1, i - 1)>> \o Split(SubSeq(s, i + 1, Len(s)), sep)
    ELSE <<s>>

\* part_001:129-148  the set of non-blank names in the configured entries:
\* each entry is cut at line breaks, each line at commas, and every piece trimmed.
ParsedEntries(raw) ==
    LET xs == {TrimSpace(raw[i]) : i \in DOMAIN raw} \ {<<>>}
        ys == UNION {{TrimSpace(y) : y \in Range(Split(x, "\n"))} : x \in xs} \ {<<>>}
    IN  UNION {{TrimSpace(z) : z \in Range(Split(y, ","))} : y \in ys} \ {<<>>}

\* mail.ParseAddress(entry) succeeds: a bare address local@domain.
ParseAddress(entry) ==
    /\ Cardinality({i \in 1..Len(entry) : entry[i] = "@"}) = 1
    /\ entry[1] # "@"
    /\ entry[Len(entry)] # "@"
    /\ \A i \in 1..Len(entry) : ~IsSpace(entry[i])

\* The directory of the customer: three groups, two users.
DirectoryGroups ==
    [g \in {"A", "B", "C"} |->
        CASE g = "A" -> [Id |-> "A", Name |-> <<"a">>, Email |-> <<"a", "@", "d">>]
          [] g = "B" -> [Id |-> "B", Name |-> <<"b">>, Email |-> <<"b", "@", "d">>]
          [] g = "C" -> [Id |-> "C", Name |-> <<"c">>, Email |-> <<"c", "@", "d">>]]

NoName == [FullName |-> <<>>, GivenName |-> <<>>, FamilyName |-> <<>>]

DirectoryUsers ==
    [u \in {"x", "y"} |->
        CASE u = "x" -> [Id |-> "x", PrimaryEmail |-> <<"x", "@", "d">>,
                         Suspended |-> FALSE, HasName |-> TRUE,
                         Name |-> [FullName |-> <<>>, GivenName |-> <<"X">>,
                                   FamilyName |-> <<>>]]
          [] u = "y" -> [Id |-> "y", PrimaryEmail |-> <<"y", "@", "d">>,
                         Suspended |-> TRUE, HasName |-> FALSE, Name |-> NoName]]

\* A member that is neither a user of the customer nor a group (a member
\* from outside the domain): listing its members fails.
OutsideMemberId == "e"

\* part_001:68-84
ParseGoogleUser(gu) ==
    LET joined == TrimSpace(gu.Name.GivenName \o <<" ">> \o gu.Name.FamilyName)
        pn == IF gu.HasName
              THEN [FullName |-> IF Len(gu.Name.FullName) > 0
                                 THEN gu.Name.FullName ELSE joined,
                    FirstName |-> gu.Name.GivenName,
                    LastName |-> gu.Name.FamilyName]
              ELSE [FullName |-> <<>>, FirstName |-> <<>>, LastName |-> <<>>]
    IN  User(gu.Id, gu.PrimaryEmail, pn, ~gu.Suspended, <<>>)

\* Groups.List with Query("email=..."), Query("name='...'"); Users.List with
\* Query("email=...").
GroupsByEmail(address) == {g \in Range(DirectoryGroups) : g.Email = address}
GroupsByName(name) == {g \in Range(DirectoryGroups) : g.Name = name}
UsersByEmail(address) == {u \in Range(DirectoryUsers) : u.PrimaryEmail = address}

\* One call of the directory API.
Call(call, arg, ok) == [call |-> call, arg |-> arg, ok |-> ok]

\* The outcomes the next directory call may have after the calls in log: it
\* succeeds, or it fails while fewer than MaxCallFailures calls have failed.
CallOutcomes(log) ==
    {TRUE} \cup
    (IF Cardinality({i \in 1..Len(log) : ~log[i].ok}) < MaxCallFailures
     THEN {FALSE} ELSE {})

\* Members.List(gId): as any call for a group, a failure for any other id.
MemberOutcomes(gId, log) ==
    IF gId \in DOMAIN dirMembers THEN CallOutcomes(log) ELSE {FALSE}

\* ge.groups after `ge.groups[g.Id] = &Group{...}` for every g found.
FoundGroups(groups, found) ==
    [id \in DOMAIN groups \cup {g.Id : g \in found} |->
        IF id \in {g.Id : g \in found} THEN Group(id, DirectoryGroups[id].Name)
        ELSE groups[id]]

\* part_001:52-58  the users Users() hands out: ge.users holds pointers, to
\* the objects of the resolve loop or to the objects of userLookup.
UsersOut ==
    IF geMade
    THEN [id \in DOMAIN geUsers |->
            IF geUsers[id] = "resolved" THEN resolved[id] ELSE geUserLookup[id]]
    ELSE EmptyMap

\* part_001:60-66
GroupsOut == IF geMade THEN geGroups ELSE EmptyMap

\* The endpoint before Populate is called (NewGoogleEndpoint, part_001:29-35).
EndpointNew ==
    /\ gePc = "idle"
    /\ geMade = FALSE
    /\ geGroups = EmptyMap
    /\ geUsers = EmptyMap
    /\ resolved = EmptyMap
    /\ geLoadErrors = FALSE
    /\ err = FALSE
    /\ geUserLookup = EmptyMap
    /\ membershipCache = EmptyMap
    /\ groupId = ""
    /\ groupIds = <<>>
    /\ queuedIds = {}
    /\ pos = 0
    /\ geTodo = {}
    /\ directoryCalls = <<>>
    /\ queued = {}

\* ------------------------------------------------------------ Populate
\* part_001:115-155  the directory service cannot be made, or the configured
\* entries hold no name, or the resolve loop starts.
PopulateBegin ==
    /\ gePc = "idle"
    /\ geLoadErrors' = FALSE
    /\ \/ /\ err' = TRUE
          /\ gePc' = "returned"
          /\ UNCHANGED <<geMade, geGroups, geUsers, resolved, geTodo>>
       \/ LET scimGroupsSet == ParsedEntries(geScimGroups)
          IN  IF scimGroupsSet = {}
              THEN /\ err' = TRUE
                   /\ gePc' = "returned"
                   /\ UNCHANGED <<geMade, geGroups, geUsers, resolved, geTodo>>
              ELSE /\ err' = FALSE
                   /\ geMade' = TRUE
                   /\ geGroups' = EmptyMap
                   /\ geUsers' = EmptyMap
                   /\ resolved' = EmptyMap
                   /\ geTodo' = scimGroupsSet
                   /\ gePc' = "resolve"
    /\ UNCHANGED <<syncState, geScimGroups, dirMembers, geUserLookup,
                   membershipCache, expansion, directoryCalls, queued>>

\* part_001:160-200  one entry of the resolve loop: an address is looked up
\* as a group e-mail, then as a user e-mail; any other entry as a group name.
ResolveEntry ==
    /\ gePc = "resolve"
    /\ \E entry \in geTodo :
        /\ geTodo' = geTodo \ {entry}
        /\ \E ok1 \in CallOutcomes(directoryCalls) :
            LET byEmail == ParseAddress(entry)
                groups == IF ~ok1 THEN {}
                          ELSE IF byEmail THEN GroupsByEmail(entry)
                          ELSE GroupsByName(entry)
                first == Append(directoryCalls, Call("Groups.List", entry, ok1))
            IN  IF groups # {}
                THEN /\ geGroups' = FoundGroups(geGroups, groups)
                     /\ err' = FALSE
                     /\ directoryCalls' = first
                     /\ UNCHANGED <<geUsers, resolved, geLoadErrors>>
                ELSE IF byEmail
                THEN \E ok2 \in CallOutcomes(first) :
                        LET users == IF ok2 THEN UsersByEmail(entry) ELSE {}
                            ids == {u.Id : u \in users}
                        IN  /\ directoryCalls' =
                                   Append(first, Call("Users.List", entry, ok2))
                            /\ err' = ~ok2
                            /\ resolved' =
                                   [id \in DOMAIN resolved \cup ids |->
                                       IF id \in ids
                                       THEN ParseGoogleUser(DirectoryUsers[id])
                                       ELSE resolved[id]]
                            /\ geUsers' = [id \in DOMAIN geUsers \cup ids |->
                                              IF id \in ids THEN "resolved"
                                              ELSE geUsers[id]]
                            /\ geLoadErrors' = (geLoadErrors \/ users = {})
                            /\ UNCHANGED geGroups
                ELSE /\ directoryCalls' = first
                     /\ err' = ~ok1
                     /\ geLoadErrors' = TRUE
                     /\ UNCHANGED <<geGroups, geUsers, resolved>>
    /\ UNCHANGED <<syncState, gePc, geScimGroups, dirMembers, geMade,
                   geUserLookup, membershipCache, expansion, queued>>

\* NothingResolved that lets Populate go on with empty maps.
NothingResolved_Ignored(groups, users) == FALSE

\* part_001:202  len(ge.groups) == 0 && len(ge.users) == 0
NothingResolved(groups, users) == DOMAIN groups = {} /\ DOMAIN users = {}

\* part_001:202-205
ResolveDone ==
    /\ gePc = "resolve"
    /\ geTodo = {}
    /\ IF NothingResolved(geGroups, geUsers)
       THEN /\ err' = TRUE
            /\ gePc' = "returned"
       ELSE /\ gePc' = "loadusers"
            /\ UNCHANGED err
    /\ UNCHANGED <<syncState, geScimGroups, dirMembers, geMade, geGroups,
                   geUsers, resolved, geLoadErrors, geUserLookup,
                   membershipCache, expansion, geTodo, directoryCalls, queued>>

\* part_001:207-226  all users of the customer are loaded into userLookup.
LoadUsers ==
    /\ gePc = "loadusers"
    /\ \E ok \in CallOutcomes(directoryCalls) :
        /\ directoryCalls' = Append(directoryCalls, Call("Users.Pages", "", ok))
        /\ err' = ~ok
        /\ IF ok
           THEN /\ geUserLookup' = [id \in DOMAIN DirectoryUsers |->
                                       ParseGoogleUser(DirectoryUsers[id])]
                /\ membershipCache' = EmptyMap
                /\ geTodo' = DOMAIN geGroups
                /\ gePc' = "expand"
           ELSE /\ gePc' = "returned"
                /\ UNCHANGED <<geUserLookup, membershipCache, geTodo>>
    /\ UNCHANGED <<syncState, geScimGroups, dirMembers, geMade, geGroups,
                   geUsers, resolved, geLoadErrors, expansion, queued>>

\* part_001:227-230  the range over ge.groups hands out the next group.
ExpandGroup ==
    /\ gePc = "expand"
    /\ \E g \in geTodo :
        /\ geTodo' = geTodo \ {g}
        /\ groupId' = g
        /\ groupIds' = <<g>>
        /\ queuedIds' = {g}
        /\ queued' = queued \cup {<<g, g>>}
    /\ pos' = 0
    /\ gePc' = "queue"
    /\ UNCHANGED <<syncState, geScimGroups, dirMembers, geMade, geGroups,
                   geUsers, resolved, geLoadErrors, err, geUserLookup,
                   membershipCache, directoryCalls>>

\* part_001:247-260  the loop over the members of one group of the queue: a
\* known user gets the top-level group appended and is handed out unless
\* ge.users has the id already; any other id is queued once.
RECURSIVE ExpandMembers(_, _, _)
ExpandMembers(memberIds, top, st) ==
    IF memberIds = <<>> THEN st
    ELSE LET mId == Head(memberIds)
             next == IF mId \in DOMAIN st.userLookup
                     THEN [st EXCEPT
                              !.userLookup[mId].Groups = Append(@, top),
                              !.users = IF mId \in DOMAIN @ THEN @
                                        ELSE MapPut(@, mId, "userLookup")]
                     ELSE IF mId \notin st.queuedIds
                     THEN [st EXCEPT !.groupIds = Append(@, mId),
                                     !.queuedIds = @ \cup {mId},
                                     !.added = @ \cup {mId}]
                     ELSE st
         IN  ExpandMembers(Tail(memberIds), top, next)

\* MembersCached that never finds a member list in the cache.
MembersCached_Never(cache, gId) == FALSE

\* part_001:236  memberIds, ok = membershipCache[gId]
MembersCached(cache, gId) == gId \in DOMAIN cache

\* part_001:231-260  one group of the queue: its members come from the cache
\* or from Members.List, whose failure is logged and leaves err set.
ExpandStep ==
    /\ gePc = "queue"
    /\ pos < Len(groupIds)
    /\ pos' = pos + 1
    /\ LET gId == groupIds[pos + 1]
           cached == MembersCached(membershipCache, gId)
       IN  \E ok \in (IF cached THEN {TRUE} ELSE MemberOutcomes(gId, directoryCalls)) :
            LET memberIds == IF cached THEN membershipCache[gId]
                             ELSE IF ok THEN dirMembers[gId] ELSE <<>>
                st == ExpandMembers(memberIds, groupId,
                          [userLookup |-> geUserLookup, users |-> geUsers,
                           groupIds |-> groupIds, queuedIds |-> queuedIds,
                           added |-> {}])
            IN  /\ IF cached
                   THEN UNCHANGED <<err, membershipCache, directoryCalls>>
                   ELSE /\ err' = ~ok
                        /\ membershipCache' = MapPut(membershipCache, gId, memberIds)
                        /\ directoryCalls' =
                               Append(directoryCalls, Call("Members.List", gId, ok))
                /\ geUserLookup' = st.userLookup
                /\ geUsers' = st.users
                /\ groupIds' = st.groupIds
                /\ queuedIds' = st.queuedIds
                /\ queued' = queued \cup {<<groupId, m>> : m \in st.added}
    /\ UNCHANGED <<syncState, gePc, geScimGroups, dirMembers, geMade, geGroups,
                   resolved, geLoadErrors, groupId, geTodo>>

\* part_001:231  the queue of the top-level group is worked off.
ExpandDone ==
    /\ gePc = "queue"
    /\ pos >= Len(groupIds)
    /\ gePc' = "expand"
    /\ UNCHANGED <<syncState, geScimGroups, dirMembers, geMade, geGroups,
                   geUsers, resolved, geLoadErrors, err, geUserLookup,
                   membershipCache, expansion, geTodo, directoryCalls, queued>>

\* part_001:264  the bare return hands out err as the last call left it.
PopulateReturn ==
    /\ gePc = "expand"
    /\ geTodo = {}
    /\ gePc' = "returned"
    /\ UNCHANGED <<syncState, geScimGroups, dirMembers, geMade, geGroups,
                   geUsers, resolved, geLoadErrors, err, geUserLookup,
                   membershipCache, expansion, geTodo, directoryCalls, queued>>

NextPopulate ==
    \/ PopulateBegin
    \/ ResolveEntry
    \/ ResolveDone
    \/ LoadUsers
    \/ ExpandGroup
    \/ ExpandStep
    \/ ExpandDone
    \/ PopulateReturn

\* ------------------------------------------------------------ Sync
\* sync.go:52-54  Source().Populate(): it fails, or it leaves a snapshot and
\* the load-error flag behind.
SourcePopulate ==
    /\ pc \in {"idle", "returned"}
    /\ run < calls
    /\ run' = run + 1
    /\ stat' = NewSyncStat
    /\ groupMatches' = {}
    /\ userMatches' = {}
    /\ phases' = <<>>
    /\ \/ /\ pc' = "returned"
          /\ result' = Append(result, "error")
          /\ UNCHANGED loadErrors
       \/ /\ pc' = "populated"
          /\ result' = Append(result, "none")
          /\ loadErrors' \in BOOLEAN
    /\ UNCHANGED <<destructive, config, endpoint, source, server, memory, groupLocals,
                   userLocals, memberLocals, todo, requests,
                   loadedGroups, loadedUsers>>

\* SafeModeLevel without the override: the configured level is kept.
SafeModeLevel_Kept(level, errors) == level

\* The level Sync goes on with after it has read LoadErrors().
SafeModeLevel(level, errors) == IF errors THEN -1 ELSE level

\* sync.go:55-58
LoadErrorsCheck ==
    /\ pc = "populated"
    /\ destructive' = SafeModeLevel(destructive, loadErrors)
    /\ pc' = "checked"
    /\ UNCHANGED <<run, result, loadErrors, config, endpoint, source, server, memory,
                   groupLocals, userLocals, todo, stat, requests, memberLocals,
                   observed>>

\* sync.go:59-61  populateScim(): it fails, or it loads the target's groups
\* and users into sync.scimGroups and sync.scimUsers.
PopulateScim ==
    /\ pc = "checked"
    /\ \/ /\ pc' = "returned"
          /\ result' = [result EXCEPT ![run] = "error"]
          /\ UNCHANGED <<memory, loadedGroups, loadedUsers>>
       \/ /\ pc' = "groups"
          /\ scimLoaded' = TRUE
          /\ scimGroups' = srvGroups
          /\ scimUsers' = srvUsers
          /\ loadedGroups' = srvGroups
          /\ loadedUsers' = srvUsers
          /\ UNCHANGED result
    /\ UNCHANGED <<run, destructive, loadErrors, config, endpoint, source, server,
                   groupLocals, userLocals, todo, stat, requests, memberLocals,
                   groupMatches, userMatches, phases>>

\* ------------------------------------------------------------ syncGroups
\* sync.go:82  s.scimGroups == nil
GroupsNotPopulated(loaded) == ~loaded

\* sync.go:82-97
SyncGroupsBegin ==
    /\ pc = "groups"
    /\ IF GroupsNotPopulated(scimLoaded)
       THEN /\ pc' = "returned"
            /\ result' = [result EXCEPT ![run] = "error"]
            /\ UNCHANGED groupLocals
       ELSE /\ pc' = "round"
            /\ keeperGroups' = DOMAIN scimGroups
            /\ externalGroups' = DOMAIN srcGroups
            /\ matchRound' = 0
            /\ groupLookup' = EmptyMap
            /\ UNCHANGED result
    /\ phases' = Append(phases, "groups")
    /\ UNCHANGED <<run, destructive, loadErrors, config, endpoint, source, server, memory,
                   userLocals, todo, stat, requests, memberLocals,
                   loadedGroups, loadedUsers, groupMatches, userMatches>>

\* PositionalLookups that takes every target group left, with or without an
\* externalId.
PositionalLookups_AnyKeeper(ext, keepers) ==
    LET scim == keepers
        minKeys == IF Cardinality(ext) > Cardinality(scim)
                   THEN Cardinality(scim) ELSE Cardinality(ext)
    IN  {[x \in {extKeys[i] : i \in 1..minKeys} |->
            scimKeys[CHOOSE i \in 1..minKeys : extKeys[i] = x]] :
         extKeys \in Orders(ext), scimKeys \in Orders(scim)}

\* sync.go:114-131  round 2 pairs the source groups left with the target
\* groups left that carry an externalId, each in the order its range hands out.
PositionalLookups(ext, keepers) ==
    LET scim == {k \in keepers : Len(scimGroups[k].ExternalId) > 0}
        minKeys == IF Cardinality(ext) > Cardinality(scim)
                   THEN Cardinality(scim) ELSE Cardinality(ext)
    IN  {[x \in {extKeys[i] : i \in 1..minKeys} |->
            scimKeys[CHOOSE i \in 1..minKeys : extKeys[i] = x]] :
         extKeys \in Orders(ext), scimKeys \in Orders(scim)}

\* GroupLookups whose round 0 is keyed by the target group's id instead of its
\* externalId.
GroupLookups_ById(r, ext, keepers) ==
    CASE r = 0 -> LastWriteMaps([k \in keepers |-> scimGroups[k].Id])
      [] r = 1 -> LastWriteMaps([k \in keepers |-> Fold(scimGroups[k].Name)])
      [] OTHER -> PositionalLookups(ext, keepers)

\* sync.go:104-132  the lookups groupLookup may hold in round r.
GroupLookups(r, ext, keepers) ==
    CASE r = 0 -> LastWriteMaps([k \in keepers |-> scimGroups[k].ExternalId])
      [] r = 1 -> LastWriteMaps([k \in keepers |-> Fold(scimGroups[k].Name)])
      [] OTHER -> PositionalLookups(ext, keepers)

\* sync.go:99-132  the head of a matching round.
RoundBegin ==
    /\ pc = "round"
    /\ matchRound < 3
    /\ keeperGroups # {} /\ externalGroups # {}
    /\ groupLookup' \in GroupLookups(matchRound, externalGroups, keeperGroups)
    /\ todo' = externalGroups
    /\ pc' = "match"
    /\ UNCHANGED <<run, result, destructive, loadErrors, config, endpoint, source, server,
                   memory, keeperGroups, externalGroups, matchRound, userLocals,
                   stat, requests, memberLocals,
                   observed>>

\* sync.go:135-143  the key a source group is looked up by in round r.
GroupKey(r, group) == IF r = 1 THEN Fold(group.Name) ELSE group.Id

\* sync.go:146-152  the attributes of the patch of a matched group.
GroupDiff(keeperGroup, group) ==
    LET attrs == (IF keeperGroup.ExternalId # group.Id THEN {"externalId"} ELSE {})
                 \cup (IF keeperGroup.Name # group.Name THEN {"displayName"} ELSE {})
    IN  [a \in attrs |-> IF a = "externalId" THEN group.Id ELSE group.Name]

\* PatchedGroup that takes the new values whatever the outcome of the request.
PatchedGroup_Always(keeperGroup, group, ok) ==
    [keeperGroup EXCEPT !.ExternalId = group.Id, !.Name = group.Name]

\* sync.go:161-163  the in-memory target group after its patch request.
PatchedGroup(keeperGroup, group, ok) ==
    IF ok THEN [keeperGroup EXCEPT !.ExternalId = group.Id, !.Name = group.Name]
    ELSE keeperGroup

\* sync.go:134-172  one source group of a matching round.
GroupMatch ==
    /\ pc = "match"
    /\ \E gid \in todo :
        LET group == srcGroups[gid]
            key == GroupKey(matchRound, group)
        IN  /\ todo' = todo \ {gid}
            /\ IF key \in DOMAIN groupLookup
               THEN LET kid == groupLookup[key]
                        keeperGroup == scimGroups[kid]
                        value == GroupDiff(keeperGroup, group)
                    IN  /\ IF DOMAIN value # {}
                           THEN \E ok \in Outcomes :
                                /\ requests' = Append(requests,
                                       Request("groups", "PATCH", "Groups", kid, value, ok))
                                /\ scimGroups' = [scimGroups EXCEPT ![kid] =
                                       PatchedGroup(@, group, ok)]
                                /\ IF ok
                                   THEN /\ srvGroups' = [srvGroups EXCEPT ![kid] =
                                               ServerPatchGroup(@, value)]
                                        /\ stat' = [stat EXCEPT !.SuccessGroups =
                                               Append(@, Entry("SCIM updated group", <<group.Name>>))]
                                   ELSE /\ stat' = [stat EXCEPT !.FailedGroups =
                                               Append(@, Entry("PATCH group error", <<group.Name>>))]
                                        /\ UNCHANGED srvGroups
                           ELSE UNCHANGED <<requests, scimGroups, srvGroups, stat>>
                        /\ keeperGroups' = keeperGroups \ {kid}
                        /\ externalGroups' = externalGroups \ {gid}
                        /\ groupMatches' = groupMatches \cup {<<gid, kid, matchRound>>}
               ELSE UNCHANGED <<requests, scimGroups, srvGroups, stat,
                                keeperGroups, externalGroups, groupMatches>>
    /\ UNCHANGED <<pc, run, result, destructive, loadErrors, config, endpoint, source,
                   srvUsers, created, scimLoaded, scimUsers, matchRound,
                   groupLookup, userLocals, memberLocals,
                   loadedGroups, loadedUsers, userMatches, phases>>

\* sync.go:99  the end of a matching round: matchRound++.
RoundEnd ==
    /\ pc = "match"
    /\ todo = {}
    /\ matchRound' = matchRound + 1
    /\ pc' = "round"
    /\ UNCHANGED <<run, result, destructive, loadErrors, config, endpoint, source, server,
                   memory, keeperGroups, externalGroups, groupLookup, userLocals,
                   todo, stat, requests, memberLocals,
                   observed>>

\* sync.go:99-102, 174  the matching loop ends: three rounds are done, or one
\* of the two maps is empty.
RoundsDone ==
    /\ pc = "round"
    /\ ~(matchRound < 3 /\ keeperGroups # {} /\ externalGroups # {})
    /\ todo' = externalGroups
    /\ pc' = "create"
    /\ UNCHANGED <<run, result, destructive, loadErrors, config, endpoint, source, server,
                   memory, groupLocals, userLocals, stat, requests, memberLocals,
                   observed>>

\* AddedGroup that leaves the in-memory target groups as they were loaded.
AddedGroup_Forgotten(groups, sg) == groups

\* sync.go:183-185  the in-memory target groups after a successful create.
AddedGroup(groups, sg) == MapPut(groups, sg.Id, sg)

\* GroupCreateStat that records no entry for a failed create.
GroupCreateStat_FailureDropped(st, group, ok) ==
    IF ok
    THEN [st EXCEPT !.SuccessGroups =
             Append(@, Entry("SCIM added group", <<group.Name>>))]
    ELSE st

\* sync.go:182-189  the entry of a group create: a success or a failure.
GroupCreateStat(st, group, ok) ==
    IF ok
    THEN [st EXCEPT !.SuccessGroups =
             Append(@, Entry("SCIM added group", <<group.Name>>))]
    ELSE [st EXCEPT !.FailedGroups =
             Append(@, Entry("POST group error", <<group.Name>>))]

\* sync.go:174-191  one source group left unmatched is created.
GroupCreate ==
    /\ pc = "create"
    /\ \E gid \in todo :
        LET group == srcGroups[gid]
            payload == [displayName |-> group.Name, externalId |-> group.Id]
        IN  /\ todo' = todo \ {gid}
            /\ \E ok \in Outcomes :
                /\ requests' = Append(requests,
                       Request("groups", "POST", "Groups", "", payload, ok))
                /\ IF ok
                   THEN LET sg == ScimGroup(NewIds[created + 1], group.Id, group.Name)
                        IN  /\ created' = created + 1
                            /\ srvGroups' = MapPut(srvGroups, sg.Id, sg)
                            /\ scimGroups' = AddedGroup(scimGroups, sg)
                   ELSE UNCHANGED <<created, srvGroups, scimGroups>>
                /\ stat' = GroupCreateStat(stat, group, ok)
    /\ UNCHANGED <<pc, run, result, destructive, loadErrors, config, endpoint, source,
                   srvUsers, scimLoaded, scimUsers, groupLocals, userLocals, memberLocals,
                   observed>>

\* sync.go:193  the create loop is over, the delete loop starts.
GroupCreateDone ==
    /\ pc = "create"
    /\ todo = {}
    /\ todo' = keeperGroups
    /\ pc' = "delete"
    /\ UNCHANGED <<run, result, destructive, loadErrors, config, endpoint, source, server,
                   memory, groupLocals, userLocals, stat, requests, memberLocals,
                   observed>>

\* GroupDeleteAllowed without the externalId test of partial mode.
GroupDeleteAllowed_AnyGroup(level, group) == level >= 0

\* sync.go:195-196  whether an unmatched target group is deleted.
GroupDeleteAllowed(level, group) ==
    level >= 0 /\ (level > 0 \/ Len(group.ExternalId) > 0)

\* sync.go:193-212  one target group left unmatched.
GroupDelete ==
    /\ pc = "delete"
    /\ \E kid \in todo :
        LET group == scimGroups[kid]
        IN  /\ todo' = todo \ {kid}
            /\ IF GroupDeleteAllowed(destructive, group)
               THEN \E ok \in Outcomes :
                    /\ requests' = Append(requests,
                           Request("groups", "DELETE", "Groups", kid, <<>>, ok))
                    /\ IF ok
                       THEN /\ scimGroups' = MapDelete(scimGroups, kid)
                            /\ srvGroups' = MapDelete(srvGroups, kid)
                            /\ srvUsers' = ServerDeleteGroup(srvUsers, kid)
                            /\ stat' = [stat EXCEPT !.SuccessGroups =
                                   Append(@, Entry("SCIM deleted group", <<group.Name>>))]
                       ELSE /\ stat' = [stat EXCEPT !.FailedGroups =
                                   Append(@, Entry("DELETE group error", <<group.Name>>))]
                            /\ UNCHANGED <<scimGroups, srvGroups, srvUsers>>
               ELSE /\ stat' =
                        IF destructive >= 0
                        THEN IF verbose
                             THEN [stat EXCEPT !.FailedGroups = Append(@,
                                      Entry("DELETE group skipped: not controlled by SCIM",
                                            <<group.Name>>))]
                             ELSE stat
                        ELSE [stat EXCEPT !.FailedGroups = Append(@,
                                 Entry("DELETE group skipped: Safe Mode", <<group.Name>>))]
                    /\ UNCHANGED <<requests, scimGroups, srvGroups, srvUsers>>
    /\ UNCHANGED <<pc, run, result, destructive, loadErrors, config, endpoint, source,
                   created, scimLoaded, scimUsers, groupLocals, userLocals, memberLocals,
                   observed>>

\* AfterGroups that runs the user phase whatever the flag.
AfterGroups_Users(upd) == "users"

\* sync.go:67-73  the phase that follows the group phase.
AfterGroups(upd) == IF upd THEN "users" ELSE "membership"

\* sync.go:213, 64-74  syncGroups returns; Sync goes on with the users when
\* updateUsers is set, and with the membership otherwise.
SyncGroupsEnd ==
    /\ pc = "delete"
    /\ todo = {}
    /\ pc' = AfterGroups(updateUsers)
    /\ UNCHANGED <<run, result, destructive, loadErrors, config, endpoint, source, server,
                   memory, groupLocals, userLocals, todo, stat, requests, memberLocals,
                   observed>>

\* ------------------------------------------------------------ syncUsers
\* UsersNotPopulated when syncUsers takes its records for not loaded.
UsersNotPopulated_Always(loaded) == TRUE

\* sync.go:217  s.scimUsers == nil
UsersNotPopulated(loaded) == ~loaded

\* sync.go:217-239  the head of syncUsers; userLookup is built when both maps
\* hold a user.
SyncUsersBegin ==
    /\ pc = "users"
    /\ IF UsersNotPopulated(scimLoaded)
       THEN /\ pc' = "returned"
            /\ result' = [result EXCEPT ![run] = "error"]
            /\ UNCHANGED <<userLocals, todo>>
       ELSE /\ keeperUsers' = DOMAIN scimUsers
            /\ externalUsers' = DOMAIN srcUsers
            /\ IF DOMAIN scimUsers # {} /\ DOMAIN srcUsers # {}
               THEN /\ userLookup' \in
                        LastWriteMaps([k \in DOMAIN scimUsers |-> Fold(scimUsers[k].Email)])
                    /\ todo' = DOMAIN srcUsers
                    /\ pc' = "usermatch"
               ELSE /\ userLookup' = EmptyMap
                    /\ todo' = DOMAIN srcUsers
                    /\ pc' = "usercreate"
            /\ UNCHANGED result
    /\ phases' = Append(phases, "users")
    /\ UNCHANGED <<run, destructive, loadErrors, config, endpoint, source, server, memory,
                   groupLocals, stat, requests, memberLocals,
                   loadedGroups, loadedUsers, groupMatches, userMatches>>

\* sync.go:246-261  the attributes of the patch of a matched user.
UserDiff(keeperUser, user) ==
    LET attrs ==
            (IF keeperUser.ExternalId # user.Id THEN {"externalId"} ELSE {})
            \cup (IF keeperUser.FullName # user.FullName THEN {"displayName"} ELSE {})
            \cup (IF keeperUser.LastName # user.LastName THEN {"name.familyName"} ELSE {})
            \cup (IF keeperUser.FirstName # user.FirstName THEN {"name.givenName"} ELSE {})
            \cup (IF keeperUser.Active # user.Active THEN {"active"} ELSE {})
    IN  [a \in attrs |->
            CASE a = "externalId" -> user.Id
              [] a = "displayName" -> user.FullName
              [] a = "name.familyName" -> user.LastName
              [] a = "name.givenName" -> user.FirstName
              [] OTHER -> user.Active]

\* UserKey without case folding.
UserKey_Exact(user) == user.Email

\* sync.go:243  the key a source user is looked up by.
UserKey(user) == Fold(user.Email)

\* sync.go:269-274  the in-memory target user after its patch request.
PatchedUser(keeperUser, user, ok) ==
    IF ok THEN [keeperUser EXCEPT !.ExternalId = user.Id,
                                  !.FullName = user.FullName,
                                  !.FirstName = user.FirstName,
                                  !.LastName = user.LastName,
                                  !.Active = user.Active]
    ELSE keeperUser

\* sync.go:241-282  one source user of the matching loop.
UserMatch ==
    /\ pc = "usermatch"
    /\ \E uid \in todo :
        LET user == srcUsers[uid]
            key == UserKey(user)
        IN  /\ todo' = todo \ {uid}
            /\ IF key \in DOMAIN userLookup
               THEN LET tid == userLookup[key]
                        keeperUser == scimUsers[tid]
                        value == UserDiff(keeperUser, user)
                    IN  /\ IF DOMAIN value # {}
                           THEN \E ok \in Outcomes :
                                /\ requests' = Append(requests,
                                       Request("users", "PATCH", "Users", tid, value, ok))
                                /\ scimUsers' = [scimUsers EXCEPT ![tid] =
                                       PatchedUser(@, user, ok)]
                                /\ IF ok
                                   THEN /\ srvUsers' = [srvUsers EXCEPT ![tid] =
                                               ServerPatchUser(@, value)]
                                        /\ stat' = [stat EXCEPT !.SuccessUsers =
                                               Append(@, Entry("SCIM updated user", <<user.Email>>))]
                                   ELSE /\ stat' = [stat EXCEPT !.FailedUsers =
                                               Append(@, Entry("PATCH user error", <<user.Email>>))]
                                        /\ UNCHANGED srvUsers
                           ELSE UNCHANGED <<requests, scimUsers, srvUsers, stat>>
                        /\ externalUsers' = externalUsers \ {uid}
                        /\ keeperUsers' = keeperUsers \ {tid}
                        /\ userMatches' = userMatches \cup {<<uid, tid>>}
               ELSE UNCHANGED <<requests, scimUsers, srvUsers, stat,
                                externalUsers, keeperUsers, userMatches>>
    /\ UNCHANGED <<pc, run, result, destructive, loadErrors, config, endpoint, source,
                   srvGroups, created, scimLoaded, scimGroups, groupLocals,
                   userLookup, memberLocals, loadedGroups, loadedUsers,
                   groupMatches, phases>>

\* sync.go:285  the matching loop is over, the create loop starts.
UserMatchDone ==
    /\ pc = "usermatch"
    /\ todo = {}
    /\ todo' = externalUsers
    /\ pc' = "usercreate"
    /\ UNCHANGED <<run, result, destructive, loadErrors, config, endpoint, source, server,
                   memory, groupLocals, userLocals, stat, requests, memberLocals,
                   observed>>

\* sync.go:302-304  the in-memory target users after a successful create.
AddedUser(users, au) == MapPut(users, au.Id, au)

\* UserCreateAllowed without the test of the active flag.
UserCreateAllowed_Always(user) == TRUE

\* sync.go:287-289  whether an unmatched source user is created.
UserCreateAllowed(user) == user.Active

\* sync.go:285-310  one source user left unmatched: created when active.
UserCreate ==
    /\ pc = "usercreate"
    /\ \E uid \in todo :
        LET user == srcUsers[uid]
            payload == [userName |-> user.Email, externalId |-> user.Id,
                        displayName |-> user.FullName,
                        name |-> [givenName |-> user.FirstName,
                                  familyName |-> user.LastName],
                        active |-> user.Active]
        IN  /\ todo' = todo \ {uid}
            /\ IF UserCreateAllowed(user)
               THEN \E ok \in Outcomes :
                    /\ requests' = Append(requests,
                           Request("users", "POST", "Users", "", payload, ok))
                    /\ IF ok
                       THEN LET au == [Id |-> NewIds[created + 1],
                                       ExternalId |-> user.Id, Email |-> user.Email,
                                       FullName |-> user.FullName,
                                       FirstName |-> user.FirstName,
                                       LastName |-> user.LastName,
                                       Active |-> user.Active, Groups |-> {}]
                            IN  /\ created' = created + 1
                                /\ srvUsers' = MapPut(srvUsers, au.Id, au)
                                /\ scimUsers' = AddedUser(scimUsers, au)
                                /\ stat' = [stat EXCEPT !.SuccessUsers =
                                       Append(@, Entry("SCIM added user", <<user.Email>>))]
                       ELSE /\ stat' = [stat EXCEPT !.FailedUsers =
                                   Append(@, Entry("POST user error", <<user.Email>>))]
                            /\ UNCHANGED <<created, srvUsers, scimUsers>>
               ELSE UNCHANGED <<requests, created, srvUsers, scimUsers, stat>>
    /\ UNCHANGED <<pc, run, result, destructive, loadErrors, config, endpoint, source,
                   srvGroups, scimLoaded, scimGroups, groupLocals, userLocals,
                   memberLocals,
                   observed>>

\* sync.go:311  the create loop is over, the delete loop starts.
UserCreateDone ==
    /\ pc = "usercreate"
    /\ todo = {}
    /\ todo' = keeperUsers
    /\ pc' = "userdelete"
    /\ UNCHANGED <<run, result, destructive, loadErrors, config, endpoint, source, server,
                   memory, groupLocals, userLocals, memberLocals, stat, requests,
                   observed>>

\* UserDeleteAllowed without the test of the active flag.
UserDeleteAllowed_Inactive(level, user) == level >= 0

\* sync.go:313-316  whether an unmatched target user is deleted.
UserDeleteAllowed(level, user) == user.Active /\ level >= 0

\* sync.go:311-327  one target user left unmatched.
UserDelete ==
    /\ pc = "userdelete"
    /\ \E tid \in todo :
        LET user == scimUsers[tid]
        IN  /\ todo' = todo \ {tid}
            /\ IF UserDeleteAllowed(destructive, user)
               THEN \E ok \in Outcomes :
                    /\ requests' = Append(requests,
                           Request("users", "DELETE", "Users", tid, <<>>, ok))
                    /\ IF ok
                       THEN /\ scimUsers' = MapDelete(scimUsers, tid)
                            /\ srvUsers' = MapDelete(srvUsers, tid)
                            /\ stat' = [stat EXCEPT !.SuccessUsers =
                                   Append(@, Entry("SCIM deleted user", <<user.Email>>))]
                       ELSE /\ stat' = [stat EXCEPT !.FailedUsers =
                                   Append(@, Entry("DELETE user error", <<user.Email>>))]
                            /\ UNCHANGED <<scimUsers, srvUsers>>
               ELSE /\ stat' =
                        IF user.Active
                        THEN [stat EXCEPT !.FailedUsers = Append(@,
                                 Entry("DELETE user skipped: Safe Mode", <<user.Email>>))]
                        ELSE stat
                    /\ UNCHANGED <<requests, scimUsers, srvUsers>>
    /\ UNCHANGED <<pc, run, result, destructive, loadErrors, config, endpoint, source,
                   srvGroups, created, scimLoaded, scimGroups, groupLocals,
                   userLocals, memberLocals,
                   observed>>

\* AfterUsers that goes back to the group phase.
AfterUsers_GroupsAgain == "groups"

\* sync.go:69-74  syncMembership follows syncUsers.
AfterUsers == "membership"

\* sync.go:328, 69-74  syncUsers returns.
SyncUsersEnd ==
    /\ pc = "userdelete"
    /\ todo = {}
    /\ pc' = AfterUsers
    /\ UNCHANGED <<run, result, destructive, loadErrors, config, endpoint, source, server,
                   memory, groupLocals, userLocals, memberLocals, todo, stat, requests,
                   observed>>

\* ------------------------------------------------------------ syncMembership
\* sync.go:332-343  the two lookups of syncMembership, built from the target
\* records the earlier phases left in memory.
SyncMembershipBegin ==
    /\ pc = "membership"
    /\ keeperUserLookup' \in
           LastWriteMaps([k \in DOMAIN scimUsers |-> Fold(scimUsers[k].Email)])
    /\ keeperGroupMap' \in
           LastWriteMaps([k \in DOMAIN scimGroups |-> scimGroups[k].ExternalId])
    /\ todo' = DOMAIN srcUsers
    /\ pc' = "member"
    /\ phases' = Append(phases, "membership")
    /\ UNCHANGED <<run, result, destructive, loadErrors, config, endpoint, source, server,
                   memory, groupLocals, userLocals, stat, requests,
                   loadedGroups, loadedUsers, groupMatches, userMatches>>

\* sync.go:349-359  the loop over user.Groups: the groups to add, in order,
\* and what is left of the target user's group set.
RECURSIVE MembershipDelta(_, _, _, _)
MembershipDelta(groups, groupMap, keeperUserGroups, addGroups) ==
    IF groups = <<>>
    THEN [addGroups |-> addGroups, keeperUserGroups |-> keeperUserGroups]
    ELSE LET externalGroupId == Head(groups)
         IN  IF externalGroupId \in DOMAIN groupMap
             THEN LET keeperGroupId == groupMap[externalGroupId]
                  IN  IF keeperGroupId \in keeperUserGroups
                      THEN MembershipDelta(Tail(groups), groupMap,
                                           keeperUserGroups \ {keeperGroupId}, addGroups)
                      ELSE MembershipDelta(Tail(groups), groupMap, keeperUserGroups,
                                           Append(addGroups, keeperGroupId))
             ELSE MembershipDelta(Tail(groups), groupMap, keeperUserGroups, addGroups)

\* RemoveGroups without the externalId filter of the non-destructive levels.
RemoveGroups_Unfiltered(level, groups, keeperUserGroups) == keeperUserGroups

\* sync.go:360-380  the memberships put on the remove list.
RemoveGroups(level, groups, keeperUserGroups) ==
    IF level > 0 THEN keeperUserGroups
    ELSE {g \in keeperUserGroups :
            g \in DOMAIN groups /\ Len(groups[g].ExternalId) > 0}

\* sync.go:364-378  the notes of the memberships left off the remove list,
\* in the order the range over the set hands them out.
RECURSIVE SkipNotes(_, _, _)
SkipNotes(order, groups, user) ==
    IF order = <<>> THEN <<>>
    ELSE LET g == Head(order)
             rest == SkipNotes(Tail(order), groups, user)
         IN  IF g \in DOMAIN groups
             THEN IF Len(groups[g].ExternalId) > 0 THEN rest
                  ELSE <<Entry("Remove team skipped: not controlled by SCIM",
                               <<groups[g].Name, user.Email>>)>> \o rest
             ELSE <<Entry("Remove team Id skipped: outside of SCIM node",
                          <<g, user.Email>>)>> \o rest

\* sync.go:382-412  the Operations of the membership patch.
MembershipOperations(level, addGroups, removeGroups) ==
    (IF Len(addGroups) > 0 THEN <<[op |-> "add", value |-> addGroups]>> ELSE <<>>)
    \o (IF removeGroups # {} /\ level >= 0
        THEN <<[op |-> "remove", value |-> removeGroups]>> ELSE <<>>)

\* sync.go:381  whether a membership patch is sent.
MembershipPatchNeeded(addGroups, removeGroups) ==
    Len(addGroups) > 0 \/ removeGroups # {}

\* sync.go:344-424  the callback of source.Users for one source user.
MembershipUser ==
    /\ pc = "member"
    /\ \E uid \in todo :
        LET user == srcUsers[uid]
            key == Fold(user.Email)
        IN  /\ todo' = todo \ {uid}
            /\ IF key \in DOMAIN keeperUserLookup
               THEN LET keeperUser == scimUsers[keeperUserLookup[key]]
                        delta == MembershipDelta(user.Groups, keeperGroupMap,
                                                 keeperUser.Groups, <<>>)
                        addGroups == delta.addGroups
                        left == delta.keeperUserGroups
                        removeGroups == RemoveGroups(destructive, scimGroups, left)
                        operations == MembershipOperations(destructive, addGroups,
                                                           removeGroups)
                    IN  \E order \in Orders(left) :
                        LET notes == IF verbose /\ destructive <= 0
                                     THEN SkipNotes(order, scimGroups, user) ELSE <<>>
                            safe == IF removeGroups # {} /\ destructive < 0
                                    THEN <<Entry("REMOVE membership skipped: Safe Mode",
                                                 <<user.Email>>)>>
                                    ELSE <<>>
                        IN  IF MembershipPatchNeeded(addGroups, removeGroups)
                            THEN \E ok \in Outcomes :
                                 /\ requests' = Append(requests,
                                        Request("membership", "PATCH", "Users", keeperUser.Id,
                                                [Operations |-> operations], ok))
                                 /\ IF ok
                                    THEN /\ srvUsers' = [srvUsers EXCEPT ![keeperUser.Id] =
                                                [@ EXCEPT !.Groups =
                                                    ServerPatchMembership(@, operations)]]
                                         /\ stat' = [stat EXCEPT
                                                !.FailedMembership = @ \o notes \o safe,
                                                !.SuccessMembership = Append(@,
                                                    Entry("SCIM changed user membership",
                                                          <<keeperUser.Email, Len(addGroups),
                                                            Cardinality(removeGroups)>>))]
                                    ELSE /\ stat' = [stat EXCEPT !.FailedMembership =
                                                @ \o notes \o safe \o
                                                <<Entry("PATCH user membership error",
                                                        <<keeperUser.Email>>)>>]
                                         /\ UNCHANGED srvUsers
                            ELSE /\ stat' = [stat EXCEPT !.FailedMembership = @ \o notes]
                                 /\ UNCHANGED <<requests, srvUsers>>
               ELSE UNCHANGED <<requests, srvUsers, stat>>
    /\ UNCHANGED <<pc, run, result, destructive, loadErrors, config, endpoint, source,
                   srvGroups, created, memory, groupLocals, userLocals, memberLocals,
                   observed>>

\* SyncResult that turns a failed request into an error of the call.
SyncResult_ErrorOnFailure(failed) == IF failed THEN "error" ELSE "stat"

\* sync.go:64-78  what Sync returns once the phases are through: the errors
\* of the requests stay in the phases (er1), err is nil and stat is set.
SyncResult(failed) == "stat"

\* sync.go:77-78  Sync returns the SyncStat.
SyncReturn ==
    /\ pc = "member"
    /\ todo = {}
    /\ result' = [result EXCEPT ![run] =
           SyncResult(\E i \in 1..Len(requests) :
                         requests[i].run = run /\ ~requests[i].ok)]
    /\ pc' = "returned"
    /\ UNCHANGED <<run, destructive, loadErrors, config, endpoint, source, server, memory,
                   groupLocals, userLocals, memberLocals, todo, stat, requests,
                   observed>>

Next ==
    \/ SourcePopulate
    \/ LoadErrorsCheck
    \/ PopulateScim
    \/ SyncGroupsBegin
    \/ RoundBegin
    \/ GroupMatch
    \/ RoundEnd
    \/ RoundsDone
    \/ GroupCreate
    \/ GroupCreateDone
    \/ GroupDelete
    \/ SyncGroupsEnd
    \/ SyncUsersBegin
    \/ UserMatch
    \/ UserMatchDone
    \/ UserCreate
    \/ UserCreateDone
    \/ UserDelete
    \/ SyncUsersEnd
    \/ SyncMembershipBegin
    \/ MembershipUser
    \/ SyncReturn

\* ------------------------------------------------------------ initial states
\* What the caller configures (cmd/main.go:91-94) and the two sides' data
\* before the first call of Sync.
Scenario(n, level, verb, upd, sg, su, tg, tu) ==
    [calls |-> n, configured |-> level, verbose |-> verb, updateUsers |-> upd,
     srcGroups |-> sg, srcUsers |-> su, srvGroups |-> tg, srvUsers |-> tu]

Levels == {-1, 0, 1}

\* Group reconciliation: every pair of source groups and of target groups,
\* with every name and every externalId; no users.
GroupScenarios ==
    {Scenario(1, level, verb, FALSE, sg, EmptyMap, tg, EmptyMap) :
        level \in Levels, verb \in {TRUE},
        sg \in KeyedMaps(SourceGroupIds,
                 [i \in SourceGroupIds |-> {Group(i, n) : n \in Names}]),
        tg \in KeyedMaps(TargetGroupIds,
                 [i \in TargetGroupIds |->
                     {ScimGroup(i, e, n) : e \in {"", "g1", "g2"}, n \in Names}])}

\* User reconciliation: up to two source users and two target users whose
\* e-mails agree, agree up to letter case, or differ; no groups.
UserScenarios ==
    {Scenario(1, level, FALSE, TRUE, EmptyMap, su, EmptyMap, tu) :
        level \in Levels,
        su \in {m \in KeyedMaps(SourceUserIds,
                   [i \in SourceUserIds |->
                       IF i = "u1"
                       THEN {User(i, e, AnnLee, a, <<>>) :
                               e \in {MailJ, Mailj}, a \in BOOLEAN}
                       ELSE {User(i, Mailk, BobLee, a, <<>>) : a \in BOOLEAN}]) :
                 UniqueEmails(m)},
        tu \in {m \in KeyedMaps(TargetUserIds,
                   [i \in TargetUserIds |->
                       IF i = "t1"
                       THEN {ScimUser(i, x, Mailj, pn, a, {}) :
                               x \in {"", "u1"}, pn \in {AnnLee, AnnRay}, a \in BOOLEAN}
                       ELSE {ScimUser(i, "", e, BobLee, a, {}) :
                               e \in {Mailk, Mailm}, a \in BOOLEAN}]) :
                 UniqueEmails(m)}}

\* Membership reconciliation: one matched user whose source group list is any
\* list over the source groups (a group may be named twice, as Populate
\* appends a top-level group once per path that reaches the user) and whose
\* target group set is any set over the target groups and an orphan id; a
\* second source user, not yet in the target, may be there too.
MembershipSourceGroups ==
    {[i \in {"g1", "g2"} |-> Group(i, IF i = "g1" THEN NameDv ELSE NameOp)],
     [i \in {"g1"} |-> Group(i, NameDv)]}

MembershipSourceUsers(upd, sg) ==
    UNION {
        {[i \in {"u1"} |-> User(i, MailJ, AnnLee, TRUE, gl)]}
        \cup (IF upd
              THEN {[i \in {"u1", "u2"} |->
                       IF i = "u1" THEN User(i, MailJ, AnnLee, TRUE, gl)
                       ELSE User(i, Mailk, BobLee, TRUE, <<"g1">>)]}
              ELSE {}) :
        gl \in SeqsUpTo(DOMAIN sg, MaxGroupsLen)}

MembershipScenarios ==
    UNION {
        {Scenario(1, level, verb, upd, sg, su, tg, tu) :
            level \in Levels, verb \in BOOLEAN,
            tg \in {[i \in {"k1", "k2"} |->
                        IF i = "k1" THEN ScimGroup(i, "g1", NameDv)
                        ELSE ScimGroup(i, x, NameOp)] : x \in {"", "g2"}},
            su \in MembershipSourceUsers(upd, sg),
            tu \in {[i \in {"t1"} |-> ScimUser(i, "u1", Mailj, AnnLee, TRUE, gs)] :
                     gs \in SUBSET {"k1", "k2", OrphanGroupId}}} :
        upd \in BOOLEAN, sg \in MembershipSourceGroups}

\* Sync called MaxRuns times on the same object, the source and the
\* configuration left as they are between the calls.
RepeatedScenarios ==
    {[sc EXCEPT !.calls = MaxRuns] :
        sc \in {m \in MembershipScenarios :
                  /\ ~m.verbose
                  /\ DOMAIN m.srcUsers = {"u1"}
                  /\ Len(m.srcUsers["u1"].Groups)
                        = Cardinality(SeqToSet(m.srcUsers["u1"].Groups))
                  /\ OrphanGroupId \notin m.srvUsers["t1"].Groups}}

\* All phases at work in one call: source group g2 is not in the target yet,
\* source user u2 neither, target user t2 is in no source, the matched
\* group's name differs in letter case and the matched user's names may differ;
\* a second target group, without externalId, may be there and stays unmatched.
PhaseScenarios ==
    {Scenario(1, level, FALSE, upd,
              [i \in {"g1", "g2"} |-> Group(i, IF i = "g1" THEN NameDv ELSE NameOp)],
              [i \in {"u1", "u2"} |->
                  IF i = "u1" THEN User(i, MailJ, AnnLee, TRUE, gl)
                  ELSE User(i, Mailk, BobLee, TRUE, <<"g1", "g2">>)],
              [i \in tgs |->
                  IF i = "k1" THEN ScimGroup(i, "g1", Namedv)
                  ELSE ScimGroup(i, "", Namedv)],
              [i \in {"t1", "t2"} |->
                  IF i = "t1" THEN ScimUser(i, "u1", Mailj, pn, TRUE, gs)
                  ELSE ScimUser(i, "", Mailm, BobLee, TRUE, {})]) :
        level \in Levels, upd \in BOOLEAN,
        gl \in {<<"g2">>, <<"g1", "g2">>}, pn \in {AnnLee, AnnRay},
        gs \in SUBSET {"k1"}, tgs \in {{"k1"}, {"k1", "k2"}}}

Scenarios ==
    GroupScenarios \cup UserScenarios \cup MembershipScenarios
    \cup RepeatedScenarios \cup PhaseScenarios

\* NewScimSync and the setters of cmd/main.go: the object before the first call.
SyncNew(sc) ==
    /\ calls = sc.calls
    /\ configured = sc.configured
    /\ destructive = sc.configured
    /\ verbose = sc.verbose
    /\ updateUsers = sc.updateUsers
    /\ srcGroups = sc.srcGroups
    /\ srcUsers = sc.srcUsers
    /\ srvGroups = sc.srvGroups
    /\ srvUsers = sc.srvUsers
    /\ pc = "idle"
    /\ run = 0
    /\ result = <<>>
    /\ loadErrors = FALSE
    /\ created = 0
    /\ scimLoaded = FALSE
    /\ scimGroups = EmptyMap
    /\ scimUsers = EmptyMap
    /\ keeperGroups = {}
    /\ externalGroups = {}
    /\ matchRound = 0
    /\ groupLookup = EmptyMap
    /\ keeperUsers = {}
    /\ externalUsers = {}
    /\ userLookup = EmptyMap
    /\ keeperUserLookup = EmptyMap
    /\ keeperGroupMap = EmptyMap
    /\ todo = {}
    /\ stat = NewSyncStat
    /\ requests = <<>>
    /\ loadedGroups = EmptyMap
    /\ loadedUsers = EmptyMap
    /\ groupMatches = {}
    /\ userMatches = {}
    /\ phases = <<>>

Init ==
    /\ \E sc \in Scenarios : SyncNew(sc)
    /\ EndpointNew
    /\ geScimGroups = <<>>
    /\ dirMembers = EmptyMap

Spec == Init /\ [][Next]_vars

\* ------------------------------------------------------------ Populate alone
\* The configured entries ([]string), each a string that may hold several
\* names cut by commas and line breaks.
Configurations ==
    { << <<"a">> >>,
      << <<"a", ",", "b">> >>,
      << <<" ", "a", "\n", "b", " ">> >>,
      << <<"a">>, <<"x", "@", "d">> >>,
      << <<"x", "@", "d">> >>,
      << <<"a", "@", "d">>, <<"y", "@", "d">> >>,
      << <<"z">> >>,
      << <<"a", ",", " ", ",", "z">> >>,
      << <<" ">>, <<>> >>,
      <<>>,
      << <<"z", "@", "d">>, <<"b">> >>,
      << <<"a", ",", "b", ",", "x", "@", "d">> >> }

\* The member list of a group with the members in S, in the directory's order.
MemberList(S) ==
    SelectSeq(<<"x", "y", "A", "B", "C", OutsideMemberId>>, LAMBDA m : m \in S)

\* The membership graphs: A may hold x, B and C; B may hold x, C and an
\* outside member; C may hold y and A (a cycle).
Memberships ==
    {[g \in DOMAIN DirectoryGroups |->
         MemberList(CASE g = "A" -> a [] g = "B" -> b [] g = "C" -> c)] :
       a \in SUBSET {"x", "B", "C"},
       b \in SUBSET {"x", "C", OutsideMemberId},
       c \in SUBSET {"y", "A"}}

InitPopulate ==
    /\ SyncNew(Scenario(0, 1, FALSE, FALSE, EmptyMap, EmptyMap, EmptyMap, EmptyMap))
    /\ EndpointNew
    /\ geScimGroups \in Configurations
    /\ dirMembers \in Memberships

SpecPopulate == InitPopulate /\ [][NextPopulate]_vars

\* Populate is one sequential function: once called it takes its next step
\* as long as it has one.
SpecPopulateFair == SpecPopulate /\ WF_vars(NextPopulate)

\* ------------------------------------------------------------ observations
\* The positions in requests of the requests of call r.
RunRequests(r) == {i \in 1..Len(requests) : requests[i].run = r}

\* The current call has loaded the target and is in or past its phases.
InPhases ==
    \/ pc \in {"groups", "round", "match", "create", "delete", "users", "usermatch",
               "usercreate", "userdelete", "membership", "member"}
    \/ pc = "returned" /\ run >= 1 /\ result[run] = "stat"

\* The current call has finished the matching rounds of syncGroups.
GroupsMatched == InPhases /\ pc \notin {"groups", "round", "match"}

\* The current call has finished the matching loop of syncUsers.
UsersMatched ==
    /\ InPhases /\ updateUsers
    /\ pc \in {"usercreate", "userdelete", "membership", "member", "returned"}

\* The current call is in or past syncMembership.
InMembership == InPhases /\ pc \in {"member", "returned"}

\* The operations of a membership patch with the given op.
OpsOf(request, op) ==
    {request.body.Operations[j] : j \in
        {j \in 1..Len(request.body.Operations) : request.body.Operations[j].op = op}}

\* ------------------------------------------------------------ claims

\* C1: idempotence of Sync.  When the first call returned a SyncStat and every
\* request of it succeeded, the second call, with the same source snapshot,
\* issues no request (no create, no patch, no delete) in any phase.
C1_SecondRunIssuesNothing ==
    (/\ Len(result) >= 1
     /\ result[1] = "stat"
     /\ \A i \in RunRequests(1) : requests[i].ok)
    => RunRequests(2) = {}

\* Whether call r has sent a request of this method and kind for target id.
Sent(r, method, kind, id) ==
    \E i \in RunRequests(r) :
        /\ requests[i].method = method
        /\ requests[i].kind = kind
        /\ requests[i].id = id

\* Whether call r has sent a create of this kind for the source id.
SentCreate(r, kind, sourceId) ==
    \E i \in RunRequests(r) :
        /\ requests[i].method = "POST"
        /\ requests[i].kind = kind
        /\ requests[i].body.externalId = sourceId

\* Whether the sequence of entries holds the entry.
Holds(entries, entry) == \E j \in 1..Len(entries) : entries[j] = entry

\* C2: safe-mode auto-escalation.  In a call whose source reports load errors
\* no group delete and no user delete is sent and no membership patch holds a
\* remove operation, whatever destructive level was configured.
C2_SafeModeOnLoadErrors ==
    (run >= 1 /\ loadErrors) =>
        \A i \in RunRequests(run) :
            /\ requests[i].method # "DELETE"
            /\ requests[i].phase = "membership" => OpsOf(requests[i], "remove") = {}

\* A call configured with a positive level whose source reported load errors
\* has returned, having skipped a group delete and a membership removal.
C2_Witness ==
    /\ pc = "returned" /\ run >= 1 /\ result[run] = "stat"
    /\ loadErrors /\ configured > 0
    /\ \E j \in 1..Len(stat.FailedGroups) :
          stat.FailedGroups[j].msg = "DELETE group skipped: Safe Mode"
    /\ \E j \in 1..Len(stat.FailedMembership) :
          stat.FailedMembership[j].msg = "REMOVE membership skipped: Safe Mode"

\* The directory calls of Populate that failed.
FailedCalls == {i \in 1..Len(directoryCalls) : ~directoryCalls[i].ok}

\* C3: whenever a directory call made during Populate fails (resolving a
\* configured entry, or listing the members of a group during the expansion
\* of nested groups) and Populate returns no error, LoadErrors() is true
\* afterwards.
C3_LoadErrorsOnAnyFailure ==
    (gePc = "returned" /\ ~err /\ FailedCalls # {}) => geLoadErrors

\* The target groups the delete loop of syncGroups has visited in this call.
UnmatchedVisited ==
    IF InPhases /\ pc \notin {"groups", "round", "match", "create"}
    THEN keeperGroups \ (IF pc = "delete" THEN todo ELSE {})
    ELSE {}

\* C4: destructive-mode boundary for groups.  A target group left unmatched
\* after the matching rounds gets a delete request if and only if destructive
\* > 0, or destructive = 0 and its externalId is not empty; with destructive
\* < 0 it gets none and a failure entry records the skip.
C4_GroupDeleteBoundary ==
    \A kid \in UnmatchedVisited :
        LET group == loadedGroups[kid]
            deleted == Sent(run, "DELETE", "Groups", kid)
        IN  /\ deleted <=> (\/ destructive > 0
                            \/ destructive = 0 /\ Len(group.ExternalId) > 0)
            /\ destructive < 0 =>
                 /\ ~deleted
                 /\ Holds(stat.FailedGroups,
                          Entry("DELETE group skipped: Safe Mode", <<group.Name>>))

\* With destructive = 0 the delete loop has visited two unmatched groups: the
\* one with an externalId got a delete request, the one without got none.
C4_Witness ==
    /\ destructive = 0
    /\ \E a, b \in UnmatchedVisited :
        /\ Len(loadedGroups[a].ExternalId) = 0
        /\ Len(loadedGroups[b].ExternalId) > 0
        /\ ~Sent(run, "DELETE", "Groups", a)
        /\ Sent(run, "DELETE", "Groups", b)

\* C5: partial mode deletes only SCIM-controlled entities.  With destructive
\* = 0 no delete is sent for a target user whose externalId is empty.
C5_PartialModeKeepsUncontrolledUsers ==
    (InPhases /\ destructive = 0) =>
        \A i \in RunRequests(run) :
            (requests[i].method = "DELETE" /\ requests[i].kind = "Users")
            => Len(loadedUsers[requests[i].id].ExternalId) > 0

\* C6: round-0 match by externalId.  A source group G and the one target
\* group T whose externalId is G.Id are matched in round 0 whatever their
\* names: no create is sent for G, no delete for T, and T gets no patch when
\* the names agree and exactly one patch, replacing displayName alone by
\* G.Name, when they differ.
C6_RoundZeroMatch ==
    GroupsMatched =>
        \A gid \in DOMAIN srcGroups, kid \in DOMAIN loadedGroups :
            LET G == srcGroups[gid]
                T == loadedGroups[kid]
                patches == {i \in RunRequests(run) :
                              /\ requests[i].method = "PATCH"
                              /\ requests[i].kind = "Groups"
                              /\ requests[i].id = kid}
            IN  (/\ T.ExternalId = G.Id
                 /\ \A other \in DOMAIN loadedGroups :
                       loadedGroups[other].ExternalId = T.ExternalId => other = kid)
                => /\ <<gid, kid, 0>> \in groupMatches
                   /\ ~SentCreate(run, "Groups", gid)
                   /\ ~Sent(run, "DELETE", "Groups", kid)
                   /\ IF T.Name = G.Name
                      THEN patches = {}
                      ELSE /\ Cardinality(patches) = 1
                           /\ \A i \in patches :
                                 /\ DOMAIN requests[i].body = {"displayName"}
                                 /\ requests[i].body["displayName"] = G.Name

\* A call has returned in which a target group whose externalId is a source
\* group's id, and whose name differs from that group's by more than letter
\* case, was patched successfully.
C6_Witness ==
    /\ pc = "returned" /\ run >= 1 /\ result[run] = "stat"
    /\ \E gid \in DOMAIN srcGroups, kid \in DOMAIN loadedGroups :
        /\ loadedGroups[kid].ExternalId = gid
        /\ Fold(loadedGroups[kid].Name) # Fold(srcGroups[gid].Name)
        /\ <<gid, kid, 0>> \in groupMatches
        /\ \E i \in RunRequests(run) :
              /\ requests[i].method = "PATCH" /\ requests[i].kind = "Groups"
              /\ requests[i].id = kid /\ requests[i].ok

\* C7: user matching is by case-folded e-mail.  A source user and a target
\* user are matched if and only if their e-mails are equal after case
\* folding; no create is sent for a matched source user and no delete for a
\* matched target user.
C7_UsersMatchByFoldedEmail ==
    UsersMatched =>
        \A uid \in DOMAIN srcUsers, tid \in DOMAIN loadedUsers :
            /\ <<uid, tid>> \in userMatches
                 <=> Fold(srcUsers[uid].Email) = Fold(loadedUsers[tid].Email)
            /\ <<uid, tid>> \in userMatches =>
                 /\ ~SentCreate(run, "Users", uid)
                 /\ ~Sent(run, "DELETE", "Users", tid)

\* A call has returned in which a source user was matched with a target user
\* whose e-mail differs from theirs in letter case, while another user was
\* created and a target user deleted.
C7_Witness ==
    /\ pc = "returned" /\ run >= 1 /\ result[run] = "stat"
    /\ \E uid \in DOMAIN srcUsers, tid \in DOMAIN loadedUsers :
        /\ <<uid, tid>> \in userMatches
        /\ srcUsers[uid].Email # loadedUsers[tid].Email
    /\ \E i \in RunRequests(run) : requests[i].method = "POST" /\ requests[i].kind = "Users"
    /\ \E i \in RunRequests(run) : requests[i].method = "DELETE" /\ requests[i].kind = "Users"

\* The source users no target user was matched with in this call.
UnmatchedSourceUsers == {uid \in DOMAIN srcUsers : \A m \in userMatches : m[1] # uid}

\* C8: no creation of inactive source users.  For a source user with Active =
\* false that matches no target user, the user phase sends no create and
\* appends no entry, at every destructive level.
C8_InactiveNeverCreated ==
    \A uid \in UnmatchedSourceUsers :
        ~srcUsers[uid].Active =>
            /\ ~SentCreate(run, "Users", uid)
            /\ \A j \in 1..Len(stat.SuccessUsers) :
                  stat.SuccessUsers[j].args # <<srcUsers[uid].Email>>
            /\ \A j \in 1..Len(stat.FailedUsers) :
                  stat.FailedUsers[j].args # <<srcUsers[uid].Email>>

\* A call has returned whose user phase created one unmatched source user and
\* left an inactive unmatched one alone.
C8_Witness ==
    /\ pc = "returned" /\ run >= 1 /\ result[run] = "stat" /\ updateUsers
    /\ \E uid \in UnmatchedSourceUsers : ~srcUsers[uid].Active
    /\ \E uid \in UnmatchedSourceUsers : SentCreate(run, "Users", uid)

\* The source users the callback of syncMembership has visited in this call
\* and found a target user for.
MembershipVisited ==
    IF InMembership
    THEN {uid \in DOMAIN srcUsers \ todo :
            Fold(srcUsers[uid].Email) \in DOMAIN keeperUserLookup}
    ELSE {}

\* syncMembership's target user of a source user.
KeeperUserOf(uid) == scimUsers[keeperUserLookup[Fold(srcUsers[uid].Email)]]

\* The source user's group ids translated to target group ids.
Translated(uid) ==
    {keeperGroupMap[g] : g \in SeqToSet(srcUsers[uid].Groups) \cap DOMAIN keeperGroupMap}

\* The membership patches this call has sent for the target user.
MembershipPatches(tid) ==
    {i \in RunRequests(run) :
        requests[i].phase = "membership" /\ requests[i].id = tid}

\* C9: membership delta.  For every matched user the add operation lists
\* exactly the translated source group ids that are not in the target user's
\* group set, each once; with destructive > 0 the remove operation lists
\* exactly the target user's group ids absent from the translated set; and
\* both travel in a single patch request.
C9_MembershipDelta ==
    \A uid \in MembershipVisited :
        LET T == KeeperUserOf(uid)
            toAdd == Translated(uid) \ T.Groups
            toRemove == T.Groups \ Translated(uid)
            patches == MembershipPatches(T.Id)
        IN  /\ Cardinality(patches) <= 1
            /\ (toAdd # {} \/ (destructive > 0 /\ toRemove # {})) => patches # {}
            /\ \A i \in patches :
                /\ IF toAdd = {}
                   THEN OpsOf(requests[i], "add") = {}
                   ELSE \E op \in OpsOf(requests[i], "add") :
                            /\ SeqToSet(op.value) = toAdd
                            /\ Len(op.value) = Cardinality(toAdd)
                /\ destructive > 0 =>
                     IF toRemove = {}
                     THEN OpsOf(requests[i], "remove") = {}
                     ELSE \E op \in OpsOf(requests[i], "remove") : op.value = toRemove

\* The memberships of the target user that syncMembership may put on the
\* remove list at a non-destructive level.
Removable(uid) ==
    {g \in KeeperUserOf(uid).Groups \ Translated(uid) :
        g \in DOMAIN scimGroups /\ Len(scimGroups[g].ExternalId) > 0}

SkipNoteMessages ==
    {"Remove team skipped: not controlled by SCIM",
     "Remove team Id skipped: outside of SCIM node"}

\* C10: membership removal filter.  With destructive <= 0 a membership is on
\* the remove list only if its group has a record in sync.scimGroups with a
\* non-empty externalId: no remove operation names another group, the removed
\* count of the summary entry counts no other group, and the skipped
\* memberships yield a failure note only when verbose is on.
C10_RemovalFilter ==
    (InMembership /\ destructive <= 0) =>
        /\ \A uid \in MembershipVisited :
              /\ \A i \in MembershipPatches(KeeperUserOf(uid).Id) :
                    \A op \in OpsOf(requests[i], "remove") : op.value \subseteq Removable(uid)
              /\ \A j \in 1..Len(stat.SuccessMembership) :
                    stat.SuccessMembership[j].args[1] = KeeperUserOf(uid).Email
                    => stat.SuccessMembership[j].args[3] <= Cardinality(Removable(uid))
        /\ ~verbose =>
              \A j \in 1..Len(stat.FailedMembership) :
                  stat.FailedMembership[j].msg \notin SkipNoteMessages

\* With destructive = 0 and verbose on, a call has returned that removed a
\* membership in a group with an externalId and noted, without removing them,
\* a membership in a group without one and a membership without group record.
C10_Witness ==
    /\ pc = "returned" /\ run >= 1 /\ result[run] = "stat"
    /\ destructive = 0 /\ verbose
    /\ \E i \in RunRequests(run) :
          /\ requests[i].phase = "membership" /\ requests[i].ok
          /\ OpsOf(requests[i], "remove") # {}
    /\ \A m \in SkipNoteMessages :
          \E j \in 1..Len(stat.FailedMembership) : stat.FailedMembership[j].msg = m

\* The current call has returned a SyncStat.
ReturnedStat == pc = "returned" /\ run >= 1 /\ result[run] = "stat"

\* C11: user-phase gating.  With UpdateUsers false a call sends no user
\* create, no user attribute patch and no user delete (the only requests on
\* users are the patches of the membership phase), SuccessUsers and
\* FailedUsers stay empty, and a call that returns a SyncStat has run the
\* group phase and the membership phase.
C11_UserPhaseGated ==
    (run >= 1 /\ ~updateUsers) =>
        /\ \A i \in RunRequests(run) :
              requests[i].kind = "Users" =>
                 requests[i].method = "PATCH" /\ requests[i].phase = "membership"
        /\ stat.SuccessUsers = <<>>
        /\ stat.FailedUsers = <<>>
        /\ ReturnedStat => phases = <<"groups", "membership">>

\* A call with UpdateUsers false has returned a SyncStat although the user
\* phase had work to do: a matched user whose names differ, an active source
\* user not in the target, an active target user in no source at a level
\* that deletes; the group phase and the membership phase sent requests.
C11_Witness ==
    /\ ReturnedStat /\ ~updateUsers /\ destructive >= 0
    /\ \E u \in DOMAIN srcUsers, t \in DOMAIN loadedUsers :
          /\ Fold(srcUsers[u].Email) = Fold(loadedUsers[t].Email)
          /\ DOMAIN UserDiff(loadedUsers[t], srcUsers[u]) # {}
    /\ \E u \in DOMAIN srcUsers :
          /\ srcUsers[u].Active
          /\ \A t \in DOMAIN loadedUsers :
                Fold(srcUsers[u].Email) # Fold(loadedUsers[t].Email)
    /\ \E t \in DOMAIN loadedUsers :
          /\ loadedUsers[t].Active
          /\ \A u \in DOMAIN srcUsers :
                Fold(srcUsers[u].Email) # Fold(loadedUsers[t].Email)
    /\ \E i, j \in RunRequests(run) :
          requests[i].phase = "groups" /\ requests[j].phase = "membership"

\* C12: the two shapes of Sync's result.  A call that has returned has handed
\* out a SyncStat with no error or an error with no SyncStat, and a call that
\* returned an error has sent no create, patch or delete request; a call that
\* returned a SyncStat has been through the membership phase.
C12_ResultShape ==
    /\ (pc = "returned" /\ run >= 1) => result[run] \in {"stat", "error"}
    /\ \A r \in 1..Len(result) : result[r] = "error" => RunRequests(r) = {}
    /\ ReturnedStat => phases[Len(phases)] = "membership"

\* The first call returned a SyncStat after it had sent requests, the second
\* call returned an error after the source was populated and before any request.
C12_Witness ==
    /\ pc = "returned" /\ run = 2
    /\ result[1] = "stat" /\ RunRequests(1) # {}
    /\ result[2] = "error" /\ RunRequests(2) = {}

\* The target groups and users no source record was matched with in this call.
UnmatchedTargetGroups == {k \in DOMAIN loadedGroups : \A m \in groupMatches : m[2] # k}
UnmatchedTargetUsers == {t \in DOMAIN loadedUsers : \A m \in userMatches : m[2] # t}
UnmatchedSourceGroups == {g \in DOMAIN srcGroups : \A m \in groupMatches : m[1] # g}

\* C13: request failures are recovered locally.  Whatever requests fail, a
\* call whose phases have started returns no error, and a call that has
\* returned has been through every phase and has processed every record of
\* every phase: each unmatched source group and active source user has its
\* create, each unmatched target group and user that the level lets go has its
\* delete, each matched pair that differs has its patch, and each matched
\* user with groups to add has the membership patch.
C13_FailuresRecovered ==
    /\ (run >= 1 /\ phases # <<>>) => result[run] # "error"
    /\ ReturnedStat =>
        /\ phases = IF updateUsers THEN <<"groups", "users", "membership">>
                    ELSE <<"groups", "membership">>
        /\ \A g \in UnmatchedSourceGroups : SentCreate(run, "Groups", g)
        /\ \A k \in UnmatchedTargetGroups :
              GroupDeleteAllowed(destructive, loadedGroups[k])
              => Sent(run, "DELETE", "Groups", k)
        /\ \A m \in groupMatches :
              (/\ \A n \in groupMatches : n[2] = m[2] => n = m
               /\ DOMAIN GroupDiff(loadedGroups[m[2]], srcGroups[m[1]]) # {})
              => Sent(run, "PATCH", "Groups", m[2])
        /\ updateUsers =>
              /\ \A u \in UnmatchedSourceUsers :
                    UserCreateAllowed(srcUsers[u]) => SentCreate(run, "Users", u)
              /\ \A t \in UnmatchedTargetUsers :
                    UserDeleteAllowed(destructive, loadedUsers[t])
                    => Sent(run, "DELETE", "Users", t)
              /\ \A m \in userMatches :
                    DOMAIN UserDiff(loadedUsers[m[2]], srcUsers[m[1]]) # {}
                    => \E i \in RunRequests(run) :
                          /\ requests[i].phase = "users"
                          /\ requests[i].method = "PATCH"
                          /\ requests[i].id = m[2]
        /\ \A uid \in MembershipVisited :
              Translated(uid) \ KeeperUserOf(uid).Groups # {}
              => MembershipPatches(KeeperUserOf(uid).Id) # {}

\* A call has returned a SyncStat in which two requests failed: the group
\* phase sent a request, in the user phase a request succeeded after another
\* had failed, and the membership phase sent its patch after that.
C13_Witness ==
    /\ ReturnedStat
    /\ Cardinality({i \in RunRequests(run) : ~requests[i].ok}) = 2
    /\ \E i, j, k, l \in RunRequests(run) :
          /\ i < j /\ j < k /\ k < l
          /\ requests[i].phase = "groups"
          /\ requests[j].phase = "users" /\ ~requests[j].ok
          /\ requests[k].phase = "users" /\ requests[k].ok
          /\ requests[l].phase = "membership"

\* The patches the group phase of this call has sent for the target group.
GroupPatches(kid) ==
    {i \in RunRequests(run) :
        /\ requests[i].phase = "groups"
        /\ requests[i].method = "PATCH"
        /\ requests[i].id = kid}

\* C14: group matching is one-to-one.  Within one group phase every target
\* group is matched with at most one source group and receives at most one
\* patch, and every source group is matched with at most one target group,
\* also when several source groups have the same case-folded display name.
C14_GroupMatchingOneToOne ==
    /\ \A m, n \in groupMatches : m[2] = n[2] => m[1] = n[1]
    /\ \A m, n \in groupMatches : m[1] = n[1] => m[2] = n[2]
    /\ \A kid \in DOMAIN loadedGroups : Cardinality(GroupPatches(kid)) <= 1

\* Every request of the current call has succeeded.
AllSucceeded == \A i \in RunRequests(run) : requests[i].ok

\* C15: convergence of the groups in one call.  After a call with destructive
\* > 0 in which every request succeeded, every source group has exactly one
\* target group whose externalId is the source group's id and whose name is
\* the source group's name, and the target holds no other group.
C15_GroupsConverge ==
    (ReturnedStat /\ destructive > 0 /\ AllSucceeded) =>
        /\ \A g \in DOMAIN srcGroups :
              Cardinality({k \in DOMAIN srvGroups :
                              /\ srvGroups[k].ExternalId = g
                              /\ srvGroups[k].Name = srcGroups[g].Name}) = 1
        /\ Cardinality(DOMAIN srvGroups) = Cardinality(DOMAIN srcGroups)

\* The attribute patches the user phase of this call has sent for the target user.
UserPatches(tid) ==
    {i \in RunRequests(run) :
        /\ requests[i].phase = "users"
        /\ requests[i].method = "PATCH"
        /\ requests[i].id = tid}

\* How many entries of the sequence carry the message.
CountOf(entries, msg) == Cardinality({j \in 1..Len(entries) : entries[j].msg = msg})

\* C16: a failed patch changes nothing and is not compensated.  When the
\* patches of a matched group or user have failed, the in-memory target
\* record is as it was loaded, the same request is not sent again, the target
\* record gets no delete and the matched source record no create in the same
\* call; every failed patch leaves exactly one failure entry; and the
\* in-memory externalId differs from the loaded one only after a patch that
\* succeeded.
C16_FailedPatchChangesNothing ==
    InPhases =>
        /\ \A kid \in DOMAIN loadedGroups :
              /\ (GroupPatches(kid) # {} /\ \A i \in GroupPatches(kid) : ~requests[i].ok) =>
                    /\ kid \in DOMAIN scimGroups
                    /\ scimGroups[kid] = loadedGroups[kid]
                    /\ ~Sent(run, "DELETE", "Groups", kid)
                    /\ \A m \in groupMatches :
                          m[2] = kid => ~SentCreate(run, "Groups", m[1])
              /\ \A i, j \in GroupPatches(kid) :
                    requests[i].body = requests[j].body => i = j
              /\ (kid \in DOMAIN scimGroups
                  /\ scimGroups[kid].ExternalId # loadedGroups[kid].ExternalId)
                 => \E i \in GroupPatches(kid) : requests[i].ok
        /\ \A tid \in DOMAIN loadedUsers :
              /\ (UserPatches(tid) # {} /\ \A i \in UserPatches(tid) : ~requests[i].ok) =>
                    /\ tid \in DOMAIN scimUsers
                    /\ scimUsers[tid] = loadedUsers[tid]
                    /\ ~Sent(run, "DELETE", "Users", tid)
                    /\ \A m \in userMatches :
                          m[2] = tid => ~SentCreate(run, "Users", m[1])
              /\ Cardinality(UserPatches(tid)) <= 1
              /\ (tid \in DOMAIN scimUsers
                  /\ scimUsers[tid].ExternalId # loadedUsers[tid].ExternalId)
                 => \E i \in UserPatches(tid) : requests[i].ok
        /\ CountOf(stat.FailedGroups, "PATCH group error")
              = Cardinality({i \in RunRequests(run) :
                               /\ requests[i].phase = "groups"
                               /\ requests[i].method = "PATCH"
                               /\ ~requests[i].ok})
        /\ CountOf(stat.FailedUsers, "PATCH user error")
              = Cardinality({i \in RunRequests(run) :
                               /\ requests[i].phase = "users"
                               /\ requests[i].method = "PATCH"
                               /\ ~requests[i].ok})

\* A call at a level that deletes has returned after the patch of a matched
\* group and the patch of a matched user had failed: both records are in
\* memory as they were loaded and still differ from their source records.
C16_Witness ==
    /\ ReturnedStat /\ destructive > 0
    /\ \E m \in groupMatches :
          /\ GroupPatches(m[2]) # {}
          /\ \A i \in GroupPatches(m[2]) : ~requests[i].ok
          /\ scimGroups[m[2]] = loadedGroups[m[2]]
          /\ DOMAIN GroupDiff(scimGroups[m[2]], srcGroups[m[1]]) # {}
    /\ \E m \in userMatches :
          /\ UserPatches(m[2]) # {}
          /\ \A i \in UserPatches(m[2]) : ~requests[i].ok
          /\ scimUsers[m[2]] = loadedUsers[m[2]]
          /\ DOMAIN UserDiff(scimUsers[m[2]], srcUsers[m[1]]) # {}

\* C17: a membership patch carries at least one operation.  Every patch
\* request the membership phase sends holds a non-empty add operation or a
\* non-empty remove operation; with destructive < 0 and nothing to add no
\* request is sent for a user whose only delta is suppressed removals.
C17_MembershipPatchNotEmpty ==
    \A i \in 1..Len(requests) :
        requests[i].phase = "membership" =>
            \E op \in OpsOf(requests[i], "add") \cup OpsOf(requests[i], "remove") :
                op.value # <<>> /\ op.value # {}

\* The target users the delete loop of syncUsers has visited in this call.
UnmatchedUsersVisited ==
    IF UsersMatched /\ pc # "usercreate"
    THEN keeperUsers \ (IF pc = "userdelete" THEN todo ELSE {})
    ELSE {}

UncontrolledGroups ==
    {k \in DOMAIN loadedGroups :
        /\ Len(loadedGroups[k].ExternalId) = 0
        /\ \A g \in DOMAIN srcGroups :
              Fold(srcGroups[g].Name) # Fold(loadedGroups[k].Name)}

\* C19: groups outside SCIM control are left alone.  With destructive <= 0 a
\* target group loaded with an empty externalId whose folded name is no source
\* group's folded name is matched in no round, and gets no patch and no delete
\* in the group phase; round 2 pairs no target group loaded with an empty
\* externalId.
C19_UncontrolledGroupsLeftAlone ==
    InPhases =>
        /\ destructive <= 0 =>
              \A k \in UncontrolledGroups :
                  /\ \A m \in groupMatches : m[2] # k
                  /\ \A i \in RunRequests(run) :
                        (requests[i].phase = "groups" /\ requests[i].kind = "Groups")
                        => requests[i].id # k
                  /\ k \in DOMAIN scimGroups /\ scimGroups[k] = loadedGroups[k]
        /\ \A m \in groupMatches :
              m[3] = 2 => Len(loadedGroups[m[2]].ExternalId) > 0

\* A call with destructive = 0 has returned whose round 2 paired a source
\* group with a target group that carries an externalId while another target
\* group, without externalId and with a name of its own, was loaded.
C19_Witness ==
    /\ ReturnedStat /\ destructive = 0
    /\ \E k \in UncontrolledGroups :
          \E m \in groupMatches :
              /\ m[3] = 2 /\ m[2] # k
              /\ Sent(run, "PATCH", "Groups", m[2])
              /\ ~Sent(run, "PATCH", "Groups", k)
              /\ ~Sent(run, "DELETE", "Groups", k)

\* The target ids of the groups (users) the target holds for the source id
\* and that were not there when this call loaded the target: the records this
\* call has created.
CreatedGroupIds(gid) ==
    {k \in DOMAIN srvGroups \ DOMAIN loadedGroups : srvGroups[k].ExternalId = gid}

CreatedUserIds(uid) ==
    {t \in DOMAIN srvUsers \ DOMAIN loadedUsers : srvUsers[t].ExternalId = uid}

\* The target ids a membership patch of this call adds to the target user.
AddedTo(tid) ==
    UNION {SeqToSet(op.value) :
             op \in UNION {OpsOf(requests[i], "add") : i \in MembershipPatches(tid)}}

\* C20: later phases see the results of earlier phases of the same call.  Once
\* the membership phase has visited a source user with a target user, the add
\* operation sent for that target user holds the new id of every group of the
\* source user that the group phase of this call created; and for a source
\* user that the user phase of this call created, the add operation sent for
\* the new target user holds a target group of every group of the source user
\* that the target has a group for.
C20_LaterPhasesSeeEarlierResults ==
    InMembership =>
        /\ \A uid \in MembershipVisited :
              \A g \in SeqToSet(srcUsers[uid].Groups) :
                  CreatedGroupIds(g) \subseteq AddedTo(KeeperUserOf(uid).Id)
        /\ \A uid \in DOMAIN srcUsers \ todo :
              \A t \in CreatedUserIds(uid) :
                  \A g \in SeqToSet(srcUsers[uid].Groups) :
                      (\E k \in DOMAIN srvGroups : srvGroups[k].ExternalId = g)
                      => \E k \in AddedTo(t) :
                            k \in DOMAIN srvGroups /\ srvGroups[k].ExternalId = g

\* A call has returned in which the group phase created a group, a user
\* loaded from the target got the new group id in its add operation, and a
\* user created by the user phase got the new group and a loaded group.
C20_Witness ==
    /\ ReturnedStat
    /\ \E g \in DOMAIN srcGroups :
          \E k \in CreatedGroupIds(g) :
              /\ \E tid \in DOMAIN loadedUsers : k \in AddedTo(tid)
              /\ \E uid \in DOMAIN srcUsers :
                    \E t \in CreatedUserIds(uid) :
                        /\ k \in AddedTo(t)
                        /\ AddedTo(t) \cap DOMAIN loadedGroups # {}

\* The place of a request in the order of a call: the patches of the matched
\* groups, the creates and the deletes of the group phase, the user phase,
\* the membership phase.
RequestRank(request) ==
    CASE request.phase = "groups" /\ request.method = "PATCH" -> 1
      [] request.phase = "groups" /\ request.method = "POST" -> 2
      [] request.phase = "groups" /\ request.method = "DELETE" -> 3
      [] request.phase = "users" -> 4
      [] OTHER -> 5

\* C21: phases are strictly ordered.  Within one call every request of the
\* group phase is sent before any request of the user phase and every request
\* of the user phase before any membership patch; inside the group phase the
\* patches of matched groups come before the creates and the creates before
\* the deletes.
C21_PhasesOrdered ==
    \A i, j \in 1..Len(requests) :
        (i < j /\ requests[i].run = requests[j].run)
        => RequestRank(requests[i]) <= RequestRank(requests[j])

\* A call has returned that sent a group patch, a group create, a group
\* delete, a request of the user phase and a membership patch.
C21_Witness ==
    /\ ReturnedStat
    /\ \A r \in 1..5 :
          \E i \in RunRequests(run) : RequestRank(requests[i]) = r

\* C22: safe-mode escalation is scoped to the call that saw the load errors.
\* Between calls Destructive() returns the level the caller configured, and a
\* call whose source reports no load errors goes through its phases at the
\* configured level, whatever an earlier call on the same object has seen.
C22_EscalationScopedToRun ==
    /\ pc \in {"idle", "returned"} => destructive = configured
    /\ (pc \notin {"idle", "returned", "populated"} /\ ~loadErrors)
       => destructive = configured

\* The groups of the directory reachable from the groups in S along the
\* member lists, S included.
RECURSIVE NestedGroups(_)
NestedGroups(S) ==
    LET next == S \cup {m \in DOMAIN dirMembers :
                          \E g \in S : m \in Range(dirMembers[g])}
    IN  IF next = S THEN S ELSE NestedGroups(next)

\* Whether the user is a member of the group, directly or through nested groups.
MemberOf(uid, gid) ==
    \E g \in NestedGroups({gid}) : uid \in Range(dirMembers[g])

\* Populate has returned nil and every directory call it made succeeded.
PopulatedCleanly == gePc = "returned" /\ ~err /\ FailedCalls = {}

\* C23: every source user carries all their groups.  After a Populate whose
\* directory calls all succeeded, for every user Users() hands out and every
\* top-level group G, G's id is in the user's Groups if and only if the user
\* is a member of G directly or through nested groups, also for a user that a
\* configured e-mail entry resolved directly.
C23_UsersCarryAllGroups ==
    PopulatedCleanly =>
        \A uid \in DOMAIN UsersOut :
            \A gid \in DOMAIN GroupsOut :
                (gid \in SeqToSet(UsersOut[uid].Groups)) <=> MemberOf(uid, gid)

\* C24: a source user's group list is a set.  After Populate the Groups list
\* of no user that Users() hands out names the same top-level group twice,
\* also when the user is reachable from the group along several paths.
C24_GroupListIsSet ==
    gePc = "returned" =>
        \A uid \in DOMAIN UsersOut :
            Len(UsersOut[uid].Groups) = Cardinality(SeqToSet(UsersOut[uid].Groups))

\* The membership patches of the current call that succeeded, in the order
\* they were sent: the order of the entries of SuccessMembership.
AppliedMembershipPatches ==
    SelectSeq(requests,
              LAMBDA r : r.run = run /\ r.phase = "membership" /\ r.ok)

\* The number of group ids in the add (remove) operation of a request.
AddCount(request) ==
    IF OpsOf(request, "add") = {} THEN 0
    ELSE Len((CHOOSE op \in OpsOf(request, "add") : TRUE).value)

RemoveCount(request) ==
    IF OpsOf(request, "remove") = {} THEN 0
    ELSE Cardinality((CHOOSE op \in OpsOf(request, "remove") : TRUE).value)

\* C25: the summary entry of a membership patch reports what was applied.
\* Every successful membership patch has its success entry, whose added and
\* removed counts are the numbers of group ids in the add operation and in
\* the remove operation of the request that was sent, at every level.
C25_SummaryReportsApplied ==
    /\ Len(stat.SuccessMembership) = Len(AppliedMembershipPatches)
    /\ \A k \in 1..Len(AppliedMembershipPatches) :
          /\ stat.SuccessMembership[k].msg = "SCIM changed user membership"
          /\ stat.SuccessMembership[k].args[2] = AddCount(AppliedMembershipPatches[k])
          /\ stat.SuccessMembership[k].args[3] = RemoveCount(AppliedMembershipPatches[k])

\* How many requests of the phase with the method and the outcome the current
\* call has sent.
RequestCount(phase, method, ok) ==
    Cardinality({i \in RunRequests(run) :
                    /\ requests[i].phase = phase
                    /\ requests[i].method = method
                    /\ requests[i].ok = ok})

\* The entries a category holds for the requests of its phase: the success
\* entries and the error entries of each method.
Accounted(phase, method, successes, done, failures, failed) ==
    /\ CountOf(successes, done) = RequestCount(phase, method, TRUE)
    /\ CountOf(failures, failed) = RequestCount(phase, method, FALSE)

\* C26: SyncStat accounts for every request.  Every create, patch and delete
\* of a call has one entry in its category, among the successes if the
\* request succeeded and among the failures if it failed, and a success list
\* holds nothing else: it is as long as the successful requests of its phase
\* are many.
C26_StatAccountsForRequests ==
    /\ Accounted("groups", "PATCH", stat.SuccessGroups, "SCIM updated group",
                 stat.FailedGroups, "PATCH group error")
    /\ Accounted("groups", "POST", stat.SuccessGroups, "SCIM added group",
                 stat.FailedGroups, "POST group error")
    /\ Accounted("groups", "DELETE", stat.SuccessGroups, "SCIM deleted group",
                 stat.FailedGroups, "DELETE group error")
    /\ Accounted("users", "PATCH", stat.SuccessUsers, "SCIM updated user",
                 stat.FailedUsers, "PATCH user error")
    /\ Accounted("users", "POST", stat.SuccessUsers, "SCIM added user",
                 stat.FailedUsers, "POST user error")
    /\ Accounted("users", "DELETE", stat.SuccessUsers, "SCIM deleted user",
                 stat.FailedUsers, "DELETE user error")
    /\ Accounted("membership", "PATCH",
                 stat.SuccessMembership, "SCIM changed user membership",
                 stat.FailedMembership, "PATCH user membership error")
    /\ Len(stat.SuccessGroups) = Cardinality({i \in RunRequests(run) :
                                    requests[i].phase = "groups" /\ requests[i].ok})
    /\ Len(stat.SuccessUsers) = Cardinality({i \in RunRequests(run) :
                                    requests[i].phase = "users" /\ requests[i].ok})
    /\ Len(stat.SuccessMembership) = Cardinality({i \in RunRequests(run) :
                                    requests[i].phase = "membership" /\ requests[i].ok})

\* A call has returned in which a group create failed and another request of
\* the group phase, a request of the user phase and a membership patch
\* succeeded.
C26_Witness ==
    /\ ReturnedStat
    /\ RequestCount("groups", "POST", FALSE) = 1
    /\ CountOf(stat.FailedGroups, "POST group error") = 1
    /\ Len(stat.SuccessGroups) >= 1
    /\ Len(stat.SuccessUsers) >= 1
    /\ Len(stat.SuccessMembership) >= 1

\* The configured names, and whether the directory calls made so far have
\* looked a name up (tried) and found a group or a user for it (resolved).
ConfiguredNames == ParsedEntries(geScimGroups)

EntryTried(entry) ==
    \E i \in 1..Len(directoryCalls) :
        directoryCalls[i].call = "Groups.List" /\ directoryCalls[i].arg = entry

EntryResolved(entry) ==
    \E i \in 1..Len(directoryCalls) :
        /\ directoryCalls[i].call \in {"Groups.List", "Users.List"}
        /\ directoryCalls[i].arg = entry
        /\ directoryCalls[i].ok
        /\ \/ /\ directoryCalls[i].call = "Groups.List"
              /\ (IF ParseAddress(entry) THEN GroupsByEmail(entry)
                  ELSE GroupsByName(entry)) # {}
           \/ /\ directoryCalls[i].call = "Users.List"
              /\ UsersByEmail(entry) # {}

\* Populate is past its resolve loop, all names looked up.
ResolveOver ==
    /\ ConfiguredNames # {}
    /\ \A entry \in ConfiguredNames : EntryTried(entry)
    /\ gePc \in {"loadusers", "expand", "queue", "returned"}

\* The calls Populate makes after the resolve loop have all succeeded.
LaterCallsSucceeded ==
    \A i \in 1..Len(directoryCalls) :
        directoryCalls[i].call \in {"Users.Pages", "Members.List"}
        => directoryCalls[i].ok

\* C27: Populate's outcome on unresolvable configuration.  Populate returns
\* an error when the configured entries hold no non-blank name or when no
\* name resolves to a group or a user, and then goes no further than the
\* resolve loop; when a name resolves and another does not, Populate goes on
\* to load the users and LoadErrors() is true; when every name resolves and
\* every later call succeeds, Populate returns nil and LoadErrors() is false.
C27_PopulateOutcome ==
    /\ (gePc = "returned" /\ ConfiguredNames = {}) => err
    /\ (gePc = "returned" /\ \A entry \in ConfiguredNames : ~EntryResolved(entry))
       => err
    /\ gePc \in {"loadusers", "expand", "queue"}
       => \E entry \in ConfiguredNames : EntryResolved(entry)
    /\ (/\ ResolveOver
        /\ \E entry \in ConfiguredNames : EntryResolved(entry)
        /\ \E entry \in ConfiguredNames : ~EntryResolved(entry))
       => /\ geLoadErrors
          /\ gePc = "returned"
             => \E i \in 1..Len(directoryCalls) :
                   directoryCalls[i].call = "Users.Pages"
    /\ (/\ gePc = "returned"
        /\ ResolveOver
        /\ \A entry \in ConfiguredNames : EntryResolved(entry)
        /\ LaterCallsSucceeded)
       => ~err /\ ~geLoadErrors

\* Populate has returned nil with LoadErrors() true after one configured name
\* resolved and another did not.
C27_Witness ==
    /\ gePc = "returned" /\ ~err /\ geLoadErrors
    /\ ResolveOver
    /\ \E entry \in ConfiguredNames : EntryResolved(entry)
    /\ \E entry \in ConfiguredNames : ~EntryResolved(entry)
    /\ DOMAIN UsersOut # {}

\* The target groups the group phase of the current call has deleted.
DeletedGroups ==
    {requests[i].id : i \in {i \in RunRequests(run) :
                                /\ requests[i].phase = "groups"
                                /\ requests[i].method = "DELETE"
                                /\ requests[i].ok}}

\* C28: no membership operation names a deleted group.  No membership patch
\* of a call holds, in its add or in its remove operation, the id of a target
\* group that the group phase of the same call has deleted, at any level.
C28_NoOperationOnDeletedGroup ==
    \A i \in RunRequests(run) :
        requests[i].phase = "membership" =>
            /\ \A op \in OpsOf(requests[i], "add") :
                  SeqToSet(op.value) \cap DeletedGroups = {}
            /\ \A op \in OpsOf(requests[i], "remove") :
                  op.value \cap DeletedGroups = {}

\* How often Populate has called Members.List for the id.
MemberFetches(gId) ==
    Cardinality({i \in 1..Len(directoryCalls) :
                    /\ directoryCalls[i].call = "Members.List"
                    /\ directoryCalls[i].arg = gId})

\* The queue of the top-level group being expanded names no id twice, and no
\* member list has been fetched twice.
ExpansionBounded ==
    /\ gePc = "queue" =>
          /\ Len(groupIds) = Cardinality(SeqToSet(groupIds))
          /\ SeqToSet(groupIds) = queuedIds
    /\ \A i \in 1..Len(directoryCalls) :
          directoryCalls[i].call = "Members.List"
          => MemberFetches(directoryCalls[i].arg) = 1

\* C29: nested-group expansion terminates.  For every membership graph,
\* cyclic ones included, Populate returns; on the way every group id is
\* queued at most once per top-level group and every member list is fetched
\* at most once per Populate.
C29_ExpansionTerminates ==
    /\ <>(gePc = "returned")
    /\ []ExpansionBounded

\* Populate has returned after it expanded A, which holds C, which holds A:
\* C was queued for A, A was queued once, and both lists were fetched.
C29_Witness ==
    /\ gePc = "returned"
    /\ "C" \in Range(dirMembers["A"]) /\ "A" \in Range(dirMembers["C"])
    /\ "A" \in DOMAIN geGroups /\ "B" \in DOMAIN geGroups
    /\ <<"A", "C">> \in queued /\ <<"B", "C">> \in queued
    /\ MemberFetches("A") = 1 /\ MemberFetches("C") = 1

====
